---------------------------- MODULE Spec2Model ----------------------------
(***************************************************************************)
(* A model of the glare analysis core of GlareCheck:                       *)
(*   - GlareAnalyzer.detect_glare_vectorized   (src/core/glare_analysis.py) *)
(*   - GlareAnalyzer.aggregate_glare_periods   (src/core/glare_analysis.py) *)
(*   - GlareAnalysisWorkflow.execute           (src/workflow/pipeline.py)   *)
(*   - InputValidator.validate                 (src/workflow/validator.py)  *)
(*   - calculate_glare                         (src/main.py)                *)
(*                                                                         *)
(* Units.  Angles are integers in units of 1/200 degree, so that the       *)
(* default angular threshold (0.5 + 0.53)/2 = 0.515 degrees is the integer *)
(* 103.  Cosines and reflection coefficients are in percent, irradiance in *)
(* W/m2, and intensities (luminances) in units of 10^-4 cd/m2.  Timestamps *)
(* are integer minutes.                                                    *)
(***************************************************************************)
EXTENDS Integers, Sequences, FiniteSets, TLC

VARIABLES
    \* ---- detect_glare_vectorized, called twice on the same inputs
    analyzer,        \* the GlareAnalyzer's settings
    reflection_df,   \* the reflection table: rows, columns, kind of index
    angular_grid,    \* the AngularGridPoints handed to the detector
    pv_area,         \* the PV area being analysed
    clock,           \* the wall clock that pd.Timestamp.now() reads
    d_pc,            \* position inside detect_glare_vectorized
    d_run,           \* 1: first call, 2: second call on the same inputs
    d_i,             \* start offset of the current chunk (0-based)
    hit_indices,     \* the (row, grid point) hits of the chunk still to visit
    glare_events,    \* the list being built by the current call
    first_events,    \* the list the first call returned
    \* ---- aggregate_glare_periods
    agg_events,      \* the GlareEvents handed to the aggregator
    gap_threshold_minutes,
    a_pc,            \* position inside aggregate_glare_periods
    events_df,       \* df: the sorted event table
    group_keys,      \* the (op_number, pv_area_name) groups still to visit
    a_i,             \* index of the loop over the rows of the group (0-based)
    period_start,
    period_end,
    period_intensity_sum,
    period_count,
    periods,         \* the list of periods being built
    earlier_periods, \* what earlier calls on the same events returned
    \* ---- GlareAnalysisWorkflow.execute
    w_data,          \* the ProcessedData handed to execute
    w_pc,            \* position inside execute
    sun_positions,   \* the list of sun position records
    w_op,            \* index of the observation point being processed (1-based)
    w_pv,            \* index of the PV area being analysed (1-based)
    op_events,       \* all_events of _analyze_glare_for_observation_point
    all_glare_events,
    w_result,        \* what execute returned, or the exception it raised
    \* ---- InputValidator.validate
    v_data,          \* the input dictionary
    v_pc,            \* position inside validate
    errors,          \* self.errors
    v_result,        \* the value validate returned
    v_calls,         \* the number of validate calls on this InputValidator
    \* ---- calculate_glare
    m_input,         \* input_data: a JSON string or a dictionary
    m_pc,            \* position inside calculate_glare
    m_raised,        \* the exceptions raised inside the try block so far
    m_swallowed,     \* the steps of execute whose failure was logged and swallowed
    response,        \* the dictionary calculate_glare returned
    \* ---- ReflectionProfile
    p_angles,        \* the angles argument of the constructor
    p_coefficients,  \* the coefficients argument of the constructor
    p_pc,            \* "new", "built", "raised" or "queried"
    p_profile,       \* the constructed object: self.angles, self.coefficients
    p_angle,         \* the argument of the last get_coefficient call
    p_result,        \* the value the last get_coefficient call returned
    \* ---- generate_sun_positions (sun_calculations)
    s_args,          \* start_time, end_time, time_resolution_minutes
    s_pvlib,         \* PVLIB_AVAILABLE
    s_pc,            \* position inside generate_sun_positions
    s_result,        \* what the call returned or raised
    \* ---- calculate_reflection_direction (reflection)
    r_args,          \* sun_az, sun_el, pan_az, pan_tilt
    r_pc,            \* "call" or "returned"
    r_result,        \* the returned (reflection_az, reflection_el)
    \* ---- calculate_glare_statistics
    glare_periods,   \* the table of aggregated glare periods
    g_pc,            \* "call" or "returned"
    g_statistics,    \* the returned dictionary
    \* ---- generate_angular_grid
    k_observer,      \* the number of the observer the grid is built for
    k_corners,       \* the bearing and elevation angle of every corner
    k_name,          \* pv_area.name
    k_spacing,       \* angular_spacing
    k_pc,            \* position inside generate_angular_grid
    k_azimuths,      \* the array azimuths
    k_i,             \* the index i of the unwrapping loop
    k_az,            \* the loop variable az
    k_el,            \* the loop variable el
    k_grid,          \* angular_grid
    \* ---- check_glare_hit and the comparison of detect_glare_vectorized
    h_args,          \* the reflection direction, the grid point, the threshold
    h_pc,            \* "call" or "returned"
    h_scalar,        \* what check_glare_hit returned
    h_batched        \* the entry of the hits matrix

detectVars == <<analyzer, reflection_df, angular_grid, pv_area, clock,
                d_pc, d_run, d_i, hit_indices, glare_events, first_events>>

aggVars == <<agg_events, gap_threshold_minutes, a_pc, events_df, group_keys, a_i,
             period_start, period_end, period_intensity_sum, period_count,
             periods, earlier_periods>>

workflowVars == <<w_data, w_pc, sun_positions, w_op, w_pv, op_events,
                  all_glare_events, w_result>>

validateVars == <<v_data, v_pc, errors, v_result, v_calls>>

mainVars == <<m_input, m_pc, m_raised, m_swallowed, response>>

profileVars == <<p_angles, p_coefficients, p_pc, p_profile, p_angle, p_result>>

\* the state of the components that are called on their own
sunVars == <<s_args, s_pvlib, s_pc, s_result>>

reflectionVars == <<r_args, r_pc, r_result>>

statisticsVars == <<glare_periods, g_pc, g_statistics>>

gridVars == <<k_observer, k_corners, k_name, k_spacing, k_pc, k_azimuths, k_i,
              k_az, k_el, k_grid>>

hitVars == <<h_args, h_pc, h_scalar, h_batched>>

pureVars == <<profileVars, sunVars, reflectionVars, statisticsVars, gridVars,
              hitVars>>

vars == <<detectVars, aggVars, workflowVars, validateVars, mainVars, pureVars>>

\* no ReflectionProfile is under construction
ProfileIdle ==
    /\ p_angles = <<>>
    /\ p_coefficients = <<>>
    /\ p_pc = "idle"
    /\ p_profile = <<>>
    /\ p_angle = 0
    /\ p_result = 0

\* generate_sun_positions is not running
SunIdle ==
    /\ s_args = <<>>
    /\ s_pvlib = FALSE
    /\ s_pc = "idle"
    /\ s_result = <<>>

\* calculate_reflection_direction is not running
ReflectionIdle ==
    /\ r_args = <<>>
    /\ r_pc = "idle"
    /\ r_result = <<>>

\* calculate_glare_statistics is not running
StatisticsIdle ==
    /\ glare_periods = <<>>
    /\ g_pc = "idle"
    /\ g_statistics = <<>>

\* generate_angular_grid is not running
GridIdle ==
    /\ k_observer = 0
    /\ k_corners = <<>>
    /\ k_name = ""
    /\ k_spacing = 0
    /\ k_pc = "idle"
    /\ k_azimuths = <<>>
    /\ k_i = 0
    /\ k_az = 0
    /\ k_el = 0
    /\ k_grid = <<>>

\* no hit test is running
HitIdle ==
    /\ h_args = <<>>
    /\ h_pc = "idle"
    /\ h_scalar = FALSE
    /\ h_batched = FALSE

PureIdle ==
    ProfileIdle /\ SunIdle /\ ReflectionIdle /\ StatisticsIdle /\ GridIdle /\ HitIdle

\* execute is not running
WorkflowIdle ==
    /\ w_data = <<>>
    /\ w_pc = "idle"
    /\ sun_positions = <<>>
    /\ w_op = 0
    /\ w_pv = 0
    /\ op_events = <<>>
    /\ all_glare_events = <<>>
    /\ w_result = <<>>

\* validate is not running
ValidateIdle ==
    /\ v_data = <<>>
    /\ v_pc = "idle"
    /\ errors = <<>>
    /\ v_result = FALSE
    /\ v_calls = 0

\* calculate_glare is not running
MainIdle ==
    /\ m_input = <<>>
    /\ m_pc = "idle"
    /\ m_raised = <<>>
    /\ m_swallowed = {}
    /\ response = <<>>

-----------------------------------------------------------------------------
(* Bounds of the model *)

\* rows of a reflection table
MaxRows == 3
\* rows per chunk; the code's chunk_size of 1000 scaled down so that a table
\* of MaxRows rows spans a chunk boundary
chunk_size == 2
\* ticks of the wall clock during the two calls
MaxClock == 1
\* events handed to the aggregator
MaxEvents == 3
\* observation points of a workflow run
MaxObservationPoints == 2
\* sun positions of the analysed period
MaxSunPositions == 2
\* entries of the pv_areas list and of the list_of_ops list of an input
MaxItems == 2
\* the latest event timestamp (minutes)
MaxTime == 3

-----------------------------------------------------------------------------
(* Program constants *)

FullCircle == 72000              \* 360 degrees (2 * np.pi)
HalfCircle == 36000              \* 180 degrees, the unwrap limit of the corners
GrazingLimit == 17800            \* 89 degrees
MaxIncidence == 18000            \* 90 degrees, the upper clip of get_coefficient
k_dynamic == 130                 \* lm/W
placeholder_area == 1            \* area=1.0
placeholder_distance == 100      \* distance=100.0
default_grid_width == 200        \* 1.0 degrees
default_beam_spread == 100       \* 0.5 degrees
default_sun_angle == 106         \* 0.53 degrees
default_glare_threshold == 300000000   \* 30000 cd/m2
default_irradiance == 800        \* sun_pos.get('dni', 800.0)

-----------------------------------------------------------------------------
(* Numeric helpers *)

Abs(x) == IF x < 0 THEN -x ELSE x

Min2(a, b) == IF a <= b THEN a ELSE b

Max2(a, b) == IF a >= b THEN a ELSE b

\* math.cos(math.radians(angle)) in percent, tabulated at the incidence
\* angles the model uses (0, 60, 80, 89, 89.5 and 90 degrees)
CosPct(angle) ==
    CASE angle = 0     -> 100
      [] angle = 12000 -> 50
      [] angle = 16000 -> 17
      [] angle = 17800 -> 2
      [] angle = 17900 -> 1
      [] angle = 18000 -> 0

-----------------------------------------------------------------------------
(* ReflectionProfile.get_coefficient *)

\* np.clip left out of get_coefficient
ClipIdentity(x, lo, hi) == x

\* np.clip(angle, lo, hi)
Clip(x, lo, hi) == IF x < lo THEN lo ELSE IF x > hi THEN hi ELSE x

\* np.searchsorted(angles, angle): the first index whose sample is >= angle
SearchSorted(angles, angle) ==
    CHOOSE idx \in 1..Len(angles) :
        /\ angles[idx] >= angle
        /\ \A j \in 1..(idx - 1) : angles[j] < angle

get_coefficient(profile, angle0) ==
    LET angle == Clip(angle0, 0, MaxIncidence)
        n == Len(profile.angles)
    IN  IF angle <= profile.angles[1] THEN profile.coefficients[1]
        ELSE IF angle >= profile.angles[n] THEN profile.coefficients[n]
        ELSE LET idx == SearchSorted(profile.angles, angle)
                 x0 == profile.angles[idx - 1]
                 x1 == profile.angles[idx]
                 y0 == profile.coefficients[idx - 1]
                 y1 == profile.coefficients[idx]
             IN  y0 + ((angle - x0) * (y1 - y0)) \div (x1 - x0)

\* the orders np.argsort(self.angles) can return: the permutations that put
\* the angles in non-decreasing order (the default sort is not stable, so
\* equal angles may come in either order)
argsort(angles) ==
    { sort_idx \in [1..Len(angles) -> 1..Len(angles)] :
        /\ \A i, j \in 1..Len(angles) : i # j => sort_idx[i] # sort_idx[j]
        /\ \A i \in 1..(Len(angles) - 1) :
              angles[sort_idx[i]] <= angles[sort_idx[i + 1]] }

\* a variant of the constructor that leaves the coefficients in input order
ReorderAnglesOnly(angles, coefficients, sort_idx) ==
    [angles       |-> [i \in 1..Len(angles) |-> angles[sort_idx[i]]],
     coefficients |-> coefficients]

\* self.angles = self.angles[sort_idx];
\* self.coefficients = self.coefficients[sort_idx]
Reorder(angles, coefficients, sort_idx) ==
    [angles       |-> [i \in 1..Len(angles) |-> angles[sort_idx[i]]],
     coefficients |-> [i \in 1..Len(angles) |-> coefficients[sort_idx[i]]]]

-----------------------------------------------------------------------------
(* GlareAnalyzer *)

\* GlareAnalyzer.__init__: angular_threshold = (beam_spread + sun_angle) / 2
GlareAnalyzer(profiles, grid_width, beam_spread, sun_angle, glare_threshold) ==
    [reflection_profiles |-> profiles,
     grid_width          |-> grid_width,
     beam_spread         |-> beam_spread,
     sun_angle           |-> sun_angle,
     glare_threshold     |-> glare_threshold,
     angular_threshold   |-> (beam_spread + sun_angle) \div 2]

\* calculate_glare_intensity: the result is in units of 10^-4 cd/m2
calculate_glare_intensity(dni, incidence_angle, reflection_coeff, area, distance) ==
    LET cos_inc == CosPct(incidence_angle)
        irradiance_on_panel == dni * cos_inc
        luminous_flux == irradiance_on_panel * area * reflection_coeff * k_dynamic
    IN  (luminous_flux \div (distance * distance)) \div area

\* scale_factor of add_luminance_to_glare_results
scale_factor == 100000

\* add_luminance_to_glare_results for one row: profile(angle) * di_plane *
\* k_dynamic / scale_factor, clipped at 0; di_plane is the irradiance on the
\* panel plane.  The result is in units of 10^-4 cd/m2.
add_luminance_to_glare_results(reflection_coeff, di_plane) ==
    Max2(0, (reflection_coeff * di_plane * k_dynamic) \div scale_factor)

\* the wrap-aware azimuth difference: np.minimum(delta, 2*pi - delta)
DeltaAz(az1, az2) == Min2(Abs(az1 - az2), FullCircle - Abs(az1 - az2))

\* angular_distances <= threshold_rad, compared on the squares; the first two
\* conjuncts only keep the squares small
AngularHit(refl_az, refl_el, grid_az, grid_el, threshold) ==
    LET delta_az == DeltaAz(refl_az, grid_az)
        delta_el == Abs(refl_el - grid_el)
    IN  /\ delta_az <= threshold
        /\ delta_el <= threshold
        /\ delta_az * delta_az + delta_el * delta_el <= threshold * threshold

\* grid_points = [p for p in angular_grid if p.pv_area_name == pv_area.name]
GridPointsOf(grid, area) == SelectSeq(grid, LAMBDA p : p.pv_area_name = area.name)

\* pv_reflections = reflection_df[reflection_df['pv_area_name'] == pv_area.name]
PvReflections(df, area) == SelectSeq(df.rows, LAMBDA r : r.pv_area_name = area.name)

\* a variant of the slice that takes in the first row of the next chunk
ChunkOfOverlapping(rows, i) ==
    SubSeq(rows, i + 1, Min2(i + chunk_size + 1, Len(rows)))

\* chunk = pv_reflections.iloc[i:i+chunk_size]
ChunkOf(rows, i) == SubSeq(rows, i + 1, Min2(i + chunk_size, Len(rows)))

\* a variant of HitIndices that walks the rows of a chunk backwards
HitIndicesBackwards(an, chunk, grid_points) ==
    LET m == Len(grid_points)
        n == Len(chunk)
        pairs == [k \in 1..(n * m) |->
                     <<n - ((k - 1) \div m), ((k - 1) % m) + 1>>]
    IN  SelectSeq(pairs, LAMBDA p :
            AngularHit(chunk[p[1]].reflection_azimuth,
                       chunk[p[1]].reflection_elevation,
                       grid_points[p[2]].azimuth,
                       grid_points[p[2]].elevation,
                       an.angular_threshold))

\* np.where(hits): the (row, grid point) index pairs of the hits, row-major
HitIndices(an, chunk, grid_points) ==
    LET m == Len(grid_points)
        pairs == [k \in 1..(Len(chunk) * m) |->
                     <<((k - 1) \div m) + 1, ((k - 1) % m) + 1>>]
    IN  SelectSeq(pairs, LAMBDA p :
            AngularHit(chunk[p[1]].reflection_azimuth,
                       chunk[p[1]].reflection_elevation,
                       grid_points[p[2]].azimuth,
                       grid_points[p[2]].elevation,
                       an.angular_threshold))

\* refl_row.get(column, 0)
RowGet(df, row, column) == IF column \in df.columns THEN row[column] ELSE 0

\* if refl_row.get('incidence_angle', 0) > 89: continue
TooGrazing(df, row) == RowGet(df, row, "incidence_angle") > GrazingLimit

\* the intensity of a hit: 0.0 unless the row has 'dni' and 'incidence_angle'
\* and the PV area's module type has a profile
HitIntensity(an, df, area, row) ==
    IF /\ "dni" \in df.columns
       /\ "incidence_angle" \in df.columns
       /\ area.module_type \in DOMAIN an.reflection_profiles
    THEN calculate_glare_intensity(
             row.dni, row.incidence_angle,
             get_coefficient(an.reflection_profiles[area.module_type],
                             row.incidence_angle),
             placeholder_area, placeholder_distance)
    ELSE 0

\* a variant of EmitsEvent that emits every hit of positive intensity
EmitsEventPositive(an, intensity) == intensity > 0

\* if intensity >= self.glare_threshold
EmitsEvent(an, intensity) == intensity >= an.glare_threshold

\* refl_row.name if isinstance(refl_row.name, pd.Timestamp)
\*     else pd.Timestamp.now()
EventTimestamp(df, row, now) == IF df.ts_indexed THEN row.timestamp ELSE now

\* GlareEvent(...) of one hit
MakeEvent(df, area, row, grid_point, intensity, now) ==
    [timestamp            |-> EventTimestamp(df, row, now),
     op_number            |-> grid_point.op_number,
     pv_area_name         |-> area.name,
     sun_azimuth          |-> RowGet(df, row, "sun_azimuth"),
     sun_elevation        |-> RowGet(df, row, "sun_elevation"),
     reflection_azimuth   |-> RowGet(df, row, "reflection_azimuth"),
     reflection_elevation |-> RowGet(df, row, "reflection_elevation"),
     incidence_angle      |-> RowGet(df, row, "incidence_angle"),
     dni                  |-> RowGet(df, row, "dni"),
     intensity            |-> intensity]

\* the body of "for refl_idx, grid_idx in zip(hit_indices[0], hit_indices[1])":
\* the events one hit adds to glare_events (none or one)
EventsOfHit(an, df, area, row, grid_point, now) ==
    IF TooGrazing(df, row) THEN <<>>
    ELSE LET intensity == HitIntensity(an, df, area, row)
         IN  IF EmitsEvent(an, intensity)
             THEN <<MakeEvent(df, area, row, grid_point, intensity, now)>>
             ELSE <<>>

-----------------------------------------------------------------------------
(* Inputs of the detector model *)

\* angles (0, 60, 90 degrees) and coefficients (percent) of the profile of
\* module type 1
Profile1 == [angles |-> <<0, 12000, 18000>>, coefficients |-> <<4, 10, 100>>]

Profiles == (1 :> Profile1)

\* glare thresholds the analyzer is built with: 0.1 and 0.5 cd/m2
GlareThresholds == {1000, 5000}

\* one grid point, and two grid points 0.15 degrees apart, of PV1 (with a
\* point of another area in between)
GridPoint(az, el, name) ==
    [azimuth |-> az, elevation |-> el, op_number |-> 1, pv_area_name |-> name]

Grids == { <<GridPoint(20, 0, "PV1")>>,
           <<GridPoint(20, 0, "PV1"), GridPoint(20, 0, "PV2"), GridPoint(50, 0, "PV1")>> }

\* the rows a table is made of (without their timestamps)
RowOf(name, az, el, inc, dni) ==
    [pv_area_name |-> name, sun_azimuth |-> 36000, sun_elevation |-> 6000,
     reflection_azimuth |-> az, reflection_elevation |-> el,
     incidence_angle |-> inc, dni |-> dni]

RowSet == { RowOf("PV1", 71980, 0, 12000, 800),   \* hit across the 0/360 seam, 60 degrees
            RowOf("PV1", 40, 20, 17800, 800),     \* hit, incidence exactly 89 degrees
            RowOf("PV1", 40, 20, 17900, 800),     \* hit, incidence 89.5 degrees
            RowOf("PV1", 36000, 0, 0, 800),       \* no hit
            RowOf("PV2", 20, 0, 0, 800) }         \* row of another PV area

\* the column sets of a table: the full table, and a table without 'dni' and
\* 'incidence_angle' (as the workflow builds it)
AllColumns == {"pv_area_name", "sun_azimuth", "sun_elevation",
               "reflection_azimuth", "reflection_elevation",
               "incidence_angle", "dni"}

ColumnSets == {AllColumns, AllColumns \ {"incidence_angle", "dni"}}

\* tables of 1..MaxRows rows in non-decreasing timestamp order
Tables ==
    UNION { { [k \in 1..n |->
                 [c \in (DOMAIN rs[k]) \cup {"timestamp"} |->
                     IF c = "timestamp" THEN (k - 1) * step ELSE rs[k][c]]]
              : rs \in [1..n -> RowSet], step \in {0, 1} }
            : n \in 1..MaxRows }

-----------------------------------------------------------------------------
(* detect_glare_vectorized as a state machine, run twice *)

\* the aggregator is not running
AggIdle ==
    /\ agg_events = <<>>
    /\ gap_threshold_minutes = 0
    /\ a_pc = "idle"
    /\ events_df = <<>>
    /\ group_keys = <<>>
    /\ a_i = 0
    /\ period_start = 0
    /\ period_end = 0
    /\ period_intensity_sum = 0
    /\ period_count = 0
    /\ periods = <<>>
    /\ earlier_periods = <<>>

InitDetect ==
    /\ PureIdle
    /\ AggIdle
    /\ WorkflowIdle
    /\ ValidateIdle
    /\ MainIdle
    /\ \E thr \in GlareThresholds :
           analyzer = GlareAnalyzer(Profiles, default_grid_width, default_beam_spread,
                                    default_sun_angle, thr)
    /\ \E rows \in Tables, cols \in ColumnSets, idx \in BOOLEAN :
           reflection_df = [rows |-> rows, columns |-> cols, ts_indexed |-> idx]
    /\ angular_grid \in Grids
    /\ \E mt \in {1, 2} : pv_area = [name |-> "PV1", module_type |-> mt]
    /\ clock = 0
    /\ d_pc = "call"
    /\ d_run = 1
    /\ d_i = 0
    /\ hit_indices = <<>>
    /\ glare_events = <<>>
    /\ first_events = <<>>

\* the wall clock advances.  Only pd.Timestamp.now() observes the clock, and
\* between two reads only the number of ticks matters: a tick is taken right
\* before a read, that is before a hit of a table without timestamp index
Tick ==
    /\ d_pc = "hits"
    /\ hit_indices # <<>>
    /\ ~reflection_df.ts_indexed
    /\ clock < MaxClock
    /\ clock' = clock + 1
    /\ UNCHANGED <<analyzer, reflection_df, angular_grid, pv_area,
                   d_pc, d_run, d_i, hit_indices, glare_events, first_events>>
    /\ UNCHANGED <<aggVars, workflowVars, validateVars, mainVars, pureVars>>

\* entry: the two filters and their early returns
DetectCall ==
    /\ d_pc = "call"
    /\ glare_events' = <<>>
    /\ d_i' = 0
    /\ hit_indices' = <<>>
    /\ IF GridPointsOf(angular_grid, pv_area) = <<>>
          \/ PvReflections(reflection_df, pv_area) = <<>>
       THEN d_pc' = "return"
       ELSE d_pc' = "chunk"
    /\ UNCHANGED <<analyzer, reflection_df, angular_grid, pv_area, clock,
                   d_run, first_events>>
    /\ UNCHANGED <<aggVars, workflowVars, validateVars, mainVars, pureVars>>

\* for i in range(0, len(pv_reflections), chunk_size): the hits of the chunk
DetectChunk ==
    /\ d_pc = "chunk"
    /\ LET rows == PvReflections(reflection_df, pv_area)
       IN  IF d_i < Len(rows)
           THEN /\ hit_indices' = HitIndices(analyzer, ChunkOf(rows, d_i),
                                             GridPointsOf(angular_grid, pv_area))
                /\ d_pc' = "hits"
           ELSE /\ hit_indices' = <<>>
                /\ d_pc' = "return"
    /\ UNCHANGED <<analyzer, reflection_df, angular_grid, pv_area, clock,
                   d_run, d_i, glare_events, first_events>>
    /\ UNCHANGED <<aggVars, workflowVars, validateVars, mainVars, pureVars>>

\* one iteration of the loop over the hits of the chunk
DetectHit ==
    /\ d_pc = "hits"
    /\ hit_indices # <<>>
    /\ LET rows == PvReflections(reflection_df, pv_area)
           chunk == ChunkOf(rows, d_i)
           grid_points == GridPointsOf(angular_grid, pv_area)
           refl_row == chunk[Head(hit_indices)[1]]
           grid_point == grid_points[Head(hit_indices)[2]]
       IN  glare_events' = glare_events \o
               EventsOfHit(analyzer, reflection_df, pv_area, refl_row,
                           grid_point, clock)
    /\ hit_indices' = Tail(hit_indices)
    /\ UNCHANGED <<analyzer, reflection_df, angular_grid, pv_area, clock,
                   d_pc, d_run, d_i, first_events>>
    /\ UNCHANGED <<aggVars, workflowVars, validateVars, mainVars, pureVars>>

\* the hits of the chunk are exhausted: on to the next chunk
DetectNextChunk ==
    /\ d_pc = "hits"
    /\ hit_indices = <<>>
    /\ d_i' = d_i + chunk_size
    /\ d_pc' = "chunk"
    /\ UNCHANGED <<analyzer, reflection_df, angular_grid, pv_area, clock,
                   d_run, hit_indices, glare_events, first_events>>
    /\ UNCHANGED <<aggVars, workflowVars, validateVars, mainVars, pureVars>>

\* return glare_events; the caller keeps the first list and calls again
DetectReturn ==
    /\ d_pc = "return"
    /\ IF d_run = 1
       THEN /\ first_events' = glare_events
            /\ d_run' = 2
            /\ d_pc' = "call"
       ELSE /\ d_pc' = "done"
            /\ UNCHANGED <<first_events, d_run>>
    /\ UNCHANGED <<analyzer, reflection_df, angular_grid, pv_area, clock,
                   d_i, hit_indices, glare_events>>
    /\ UNCHANGED <<aggVars, workflowVars, validateVars, mainVars, pureVars>>

NextDetect ==
    \/ Tick
    \/ DetectCall
    \/ DetectChunk
    \/ DetectHit
    \/ DetectNextChunk
    \/ DetectReturn

SpecDetect == InitDetect /\ [][NextDetect]_vars

-----------------------------------------------------------------------------
(* Properties of detect_glare_vectorized *)

\* the row and the grid point of the hit the loop visits next
CurrentHitRow ==
    ChunkOf(PvReflections(reflection_df, pv_area), d_i)[Head(hit_indices)[1]]

\* all events returned or being built
AllDetectEvents ==
    {glare_events[k] : k \in 1..Len(glare_events)} \cup
    {first_events[k] : k \in 1..Len(first_events)}

NonDecreasingTimestamps(events) ==
    \A k \in 1..(Len(events) - 1) : events[k].timestamp <= events[k + 1].timestamp

\* C1: detect_glare_vectorized never returns an event whose incidence angle
\* is at or above 89 degrees.
C1_NoEventAtOrAboveGrazing ==
    \A e \in AllDetectEvents : e.incidence_angle < GrazingLimit

\* C2: every event has intensity >= the analyzer's glare_threshold, and a hit
\* whose computed intensity is below the threshold adds no event.
C2_IntensityAtLeastThreshold ==
    /\ [](\A e \in AllDetectEvents : e.intensity >= analyzer.glare_threshold)
    /\ [][(/\ d_pc = "hits"
           /\ hit_indices # <<>>
           /\ hit_indices' = Tail(hit_indices)
           /\ HitIntensity(analyzer, reflection_df, pv_area, CurrentHitRow)
                  < analyzer.glare_threshold)
          => glare_events' = glare_events]_vars

\* C2 witness: a finished call that returned an event and skipped a hit of
\* a row below grazing whose intensity is below the threshold
C2_Witness ==
    /\ d_pc = "done"
    /\ glare_events # <<>>
    /\ \E k \in 1..Len(reflection_df.rows) :
           LET row == reflection_df.rows[k]
           IN  /\ row.pv_area_name = pv_area.name
               /\ ~TooGrazing(reflection_df, row)
               /\ \E g \in 1..Len(angular_grid) :
                      /\ angular_grid[g].pv_area_name = pv_area.name
                      /\ AngularHit(row.reflection_azimuth, row.reflection_elevation,
                                    angular_grid[g].azimuth, angular_grid[g].elevation,
                                    analyzer.angular_threshold)
               /\ HitIntensity(analyzer, reflection_df, pv_area, row)
                      < analyzer.glare_threshold
               /\ HitIntensity(analyzer, reflection_df, pv_area, row) > 0

\* C19: a call emits at most one event per timestep of the PV area: a row
\* whose reflection direction lies within the threshold of several grid points
\* yields a single event, so the events are never more than the rows.
C19_AtMostOneEventPerTimestep ==
    Len(glare_events) <= Len(PvReflections(reflection_df, pv_area))

\* C23: the intensity of every event equals reflectionCoefficient(incidence)
\* x (DNI x cos(incidence)) x 130 / 100000, clamped to >= 0: the value
\* add_luminance_to_glare_results computes for the row.
C23_IntensityIsScaledLuminance ==
    \A e \in AllDetectEvents :
        e.intensity =
            add_luminance_to_glare_results(
                get_coefficient(analyzer.reflection_profiles[pv_area.module_type],
                                e.incidence_angle),
                e.dni * CosPct(e.incidence_angle))

\* C6: two calls on identical inputs return identical event lists.
C6_SecondCallReturnsSameEvents ==
    d_pc = "done" => glare_events = first_events

\* C7: for a table in non-decreasing timestamp order the events are in
\* non-decreasing timestamp order, within a chunk and across chunks.
C7_EventsInTimestampOrder ==
    /\ NonDecreasingTimestamps(glare_events)
    /\ NonDecreasingTimestamps(first_events)

\* C7 witness: a returned list with events of the first and of the second
\* chunk of a table indexed by increasing timestamps
C7_Witness ==
    /\ d_pc = "done"
    /\ reflection_df.ts_indexed
    /\ Len(glare_events) >= 3
    /\ glare_events[1].timestamp = 0
    /\ glare_events[Len(glare_events)].timestamp = chunk_size

-----------------------------------------------------------------------------
(* GlareAnalyzer.aggregate_glare_periods *)

\* the PV area names in their sort order
PvNames == <<"PV1", "PV2">>

NameRank(name) == CHOOSE k \in 1..Len(PvNames) : PvNames[k] = name

\* the order of df.sort_values(['op_number', 'pv_area_name', 'timestamp'])
SortKeyLessEq(a, b) ==
    \/ a.op_number < b.op_number
    \/ /\ a.op_number = b.op_number
       /\ NameRank(a.pv_area_name) < NameRank(b.pv_area_name)
    \/ /\ a.op_number = b.op_number
       /\ a.pv_area_name = b.pv_area_name
       /\ a.timestamp <= b.timestamp

\* x put behind the last row that sorts at or before it
InsertSorted(sorted, x) ==
    LET before == SelectSeq(sorted, LAMBDA y : SortKeyLessEq(y, x))
        after == SelectSeq(sorted, LAMBDA y : ~SortKeyLessEq(y, x))
    IN  before \o <<x>> \o after

\* a variant of the sort that leaves the rows in the order handed over
sort_values_as_given(events) == events

RECURSIVE sort_values(_)
sort_values(events) ==
    IF events = <<>> THEN <<>>
    ELSE InsertSorted(sort_values(SubSeq(events, 1, Len(events) - 1)),
                      events[Len(events)])

GroupKey(e) == <<e.op_number, e.pv_area_name>>

\* the keys of df.groupby(['op_number', 'pv_area_name']), in key order: the
\* distinct keys of the sorted table in order of appearance
RECURSIVE GroupKeysOf(_)
GroupKeysOf(sorted) ==
    IF sorted = <<>> THEN <<>>
    ELSE LET rest == GroupKeysOf(Tail(sorted))
         IN  IF rest # <<>> /\ Head(rest) = GroupKey(Head(sorted))
             THEN rest
             ELSE <<GroupKey(Head(sorted))>> \o rest

\* a variant of the grouping that looks at the observer only
GroupRowsOfObserver(sorted, key) ==
    SelectSeq(sorted, LAMBDA e : e.op_number = key[1])

\* the rows of one group, re-indexed from 0 (reset_index(drop=True))
GroupRows(sorted, key) == SelectSeq(sorted, LAMBDA e : GroupKey(e) = key)

\* a variant of GapExceeds that also splits at a gap equal to the threshold
GapExceedsOrEqual(time_gap, threshold) == time_gap >= threshold

\* if time_gap > gap_threshold_minutes
GapExceeds(time_gap, threshold) == time_gap > threshold

\* the record appended to periods
PeriodRecord(key, start, end, intensity_sum, count) ==
    [op_number |-> key[1],
     pv_area_name |-> key[2],
     start_time |-> start,
     end_time |-> end,
     duration_minutes |-> end - start,
     intensity_sum |-> intensity_sum,
     count |-> count]

\* a variant of FinalPeriod that drops the period still open at the end
FinalPeriodDropped(key, start, end, intensity_sum, count) == <<>>

\* "Add final period": if period_count > 0: periods.append(...)
FinalPeriod(key, start, end, intensity_sum, count) ==
    IF count > 0 THEN <<PeriodRecord(key, start, end, intensity_sum, count)>>
    ELSE <<>>

\* the detector is not running
DetectIdle ==
    /\ analyzer = GlareAnalyzer(Profiles, default_grid_width, default_beam_spread,
                                default_sun_angle, default_glare_threshold)
    /\ reflection_df = [rows |-> <<>>, columns |-> AllColumns, ts_indexed |-> TRUE]
    /\ angular_grid = <<>>
    /\ pv_area = [name |-> "PV1", module_type |-> 1]
    /\ clock = 0
    /\ d_pc = "idle"
    /\ d_run = 1
    /\ d_i = 0
    /\ hit_indices = <<>>
    /\ glare_events = <<>>
    /\ first_events = <<>>

\* the events handed to the aggregator: any order, any interleaving of groups
AggKeys == {<<1, "PV1">>, <<1, "PV2">>, <<2, "PV1">>}

AggEventSet ==
    { [timestamp |-> t, op_number |-> k[1], pv_area_name |-> k[2],
       intensity |-> 5000, duration_minutes |-> 1] : t \in 0..MaxTime, k \in AggKeys }

\* gap thresholds in minutes (the default of 5 exceeds every gap up to MaxTime)
GapThresholds == {1, 2}

InitAggregate ==
    /\ PureIdle
    /\ DetectIdle
    /\ WorkflowIdle
    /\ ValidateIdle
    /\ MainIdle
    /\ agg_events \in UNION { [1..n -> AggEventSet] : n \in 0..MaxEvents }
    /\ gap_threshold_minutes \in GapThresholds
    /\ a_pc = "call"
    /\ events_df = <<>>
    /\ group_keys = <<>>
    /\ a_i = 0
    /\ period_start = 0
    /\ period_end = 0
    /\ period_intensity_sum = 0
    /\ period_count = 0
    /\ periods = <<>>
    /\ earlier_periods = <<>>

\* entry: the early return for no events, else the sort and the grouping
AggCall ==
    /\ a_pc = "call"
    /\ IF agg_events = <<>>
       THEN /\ a_pc' = "done"
            /\ UNCHANGED <<events_df, group_keys>>
       ELSE /\ events_df' = sort_values(agg_events)
            /\ group_keys' = GroupKeysOf(sort_values(agg_events))
            /\ a_pc' = "group"
    /\ UNCHANGED <<earlier_periods, agg_events, gap_threshold_minutes, a_i, period_start,
                   period_end, period_intensity_sum, period_count, periods>>
    /\ UNCHANGED <<detectVars, workflowVars, validateVars, mainVars, pureVars>>

\* for (op, pv_area), group in df.groupby(...): the start of one group
AggGroup ==
    /\ a_pc = "group"
    /\ group_keys # <<>>
    /\ LET group == GroupRows(events_df, Head(group_keys))
       IN  /\ period_start' = group[1].timestamp
           /\ period_end' = group[1].timestamp
    /\ period_intensity_sum' = 0
    /\ period_count' = 0
    /\ a_i' = 0
    /\ a_pc' = "rows"
    /\ UNCHANGED <<earlier_periods, agg_events, gap_threshold_minutes, events_df, group_keys, periods>>
    /\ UNCHANGED <<detectVars, workflowVars, validateVars, mainVars, pureVars>>

\* one iteration of "for i in range(len(group))"
AggRow ==
    /\ a_pc = "rows"
    /\ LET group == GroupRows(events_df, Head(group_keys))
       IN  /\ a_i < Len(group)
           /\ LET current_time == group[a_i + 1].timestamp
                  time_gap == current_time - period_end
                  split == a_i > 0 /\ GapExceeds(time_gap, gap_threshold_minutes)
              IN  /\ periods' =
                        IF split
                        THEN Append(periods,
                                    PeriodRecord(Head(group_keys), period_start,
                                                 period_end, period_intensity_sum,
                                                 period_count))
                        ELSE periods
                  /\ period_start' = IF split THEN current_time ELSE period_start
                  /\ period_end' = current_time
                  /\ period_intensity_sum' =
                        (IF split THEN 0 ELSE period_intensity_sum)
                            + group[a_i + 1].intensity
                  /\ period_count' = (IF split THEN 0 ELSE period_count) + 1
    /\ a_i' = a_i + 1
    /\ UNCHANGED <<earlier_periods, agg_events, gap_threshold_minutes, a_pc, events_df, group_keys>>
    /\ UNCHANGED <<detectVars, workflowVars, validateVars, mainVars, pureVars>>

\* the rows of the group are exhausted: the final period, then the next group
AggFinalPeriod ==
    /\ a_pc = "rows"
    /\ a_i >= Len(GroupRows(events_df, Head(group_keys)))
    /\ periods' = periods \o FinalPeriod(Head(group_keys), period_start, period_end,
                                         period_intensity_sum, period_count)
    /\ group_keys' = Tail(group_keys)
    /\ a_pc' = "group"
    /\ UNCHANGED <<earlier_periods, agg_events, gap_threshold_minutes, events_df, a_i, period_start,
                   period_end, period_intensity_sum, period_count>>
    /\ UNCHANGED <<detectVars, workflowVars, validateVars, mainVars, pureVars>>

\* return pd.DataFrame(periods)
AggReturn ==
    /\ a_pc = "group"
    /\ group_keys = <<>>
    /\ a_pc' = "done"
    /\ UNCHANGED <<earlier_periods, agg_events, gap_threshold_minutes, events_df, group_keys, a_i,
                   period_start, period_end, period_intensity_sum, period_count,
                   periods>>
    /\ UNCHANGED <<detectVars, workflowVars, validateVars, mainVars, pureVars>>

NextAggregate ==
    \/ AggCall
    \/ AggGroup
    \/ AggRow
    \/ AggFinalPeriod
    \/ AggReturn

SpecAggregate == InitAggregate /\ [][NextAggregate]_vars

\* the events of the repeated calls: two groups whose order by observer is
\* the reverse of their order by PV-area name
ReaggEventSet ==
    { e \in AggEventSet : GroupKey(e) \in {<<1, "PV2">>, <<2, "PV1">>} }

InitReaggregate ==
    /\ PureIdle
    /\ DetectIdle
    /\ WorkflowIdle
    /\ ValidateIdle
    /\ MainIdle
    /\ agg_events \in UNION { [1..n -> ReaggEventSet] : n \in 0..MaxEvents }
    /\ gap_threshold_minutes \in GapThresholds
    /\ a_pc = "call"
    /\ events_df = <<>>
    /\ group_keys = <<>>
    /\ a_i = 0
    /\ period_start = 0
    /\ period_end = 0
    /\ period_intensity_sum = 0
    /\ period_count = 0
    /\ periods = <<>>
    /\ earlier_periods = <<>>

\* the rows of events in another order
Reordered(events) ==
    { [i \in 1..Len(events) |-> events[perm[i]]] :
        perm \in { f \in [1..Len(events) -> 1..Len(events)] :
                     \A i, j \in 1..Len(events) : f[i] = f[j] => i = j } }

\* a second call of aggregate_glare_periods, on the same events in any other
\* order and with the same threshold; the first call's table is kept for
\* comparison
AggAgain ==
    /\ a_pc = "done"
    /\ earlier_periods = <<>>
    /\ earlier_periods' = <<periods>>
    /\ agg_events' \in Reordered(agg_events)
    /\ a_pc' = "call"
    /\ events_df' = <<>>
    /\ group_keys' = <<>>
    /\ a_i' = 0
    /\ period_start' = 0
    /\ period_end' = 0
    /\ period_intensity_sum' = 0
    /\ period_count' = 0
    /\ periods' = <<>>
    /\ UNCHANGED gap_threshold_minutes
    /\ UNCHANGED <<detectVars, workflowVars, validateVars, mainVars, pureVars>>

NextReaggregate ==
    \/ NextAggregate
    \/ AggAgain

SpecReaggregate == InitReaggregate /\ [][NextReaggregate]_vars

-----------------------------------------------------------------------------
(* Properties of aggregate_glare_periods *)

\* the input rows of one group in timestamp order
SortedGroup(key) == GroupRows(sort_values(agg_events), key)

\* the returned periods of one group, in order
PeriodsOf(key) ==
    SelectSeq(periods, LAMBDA p : p.op_number = key[1] /\ p.pv_area_name = key[2])

\* the returned periods of a group that cover a timestamp
PeriodsCovering(key, t) ==
    { j \in 1..Len(PeriodsOf(key)) :
        PeriodsOf(key)[j].start_time <= t /\ t <= PeriodsOf(key)[j].end_time }

\* the number of adjacent pairs of a group whose gap exceeds the threshold
GapsExceeding(key) ==
    Cardinality({ i \in 1..(Len(SortedGroup(key)) - 1) :
        SortedGroup(key)[i + 1].timestamp - SortedGroup(key)[i].timestamp
            > gap_threshold_minutes })

InputKeys == { GroupKey(agg_events[i]) : i \in 1..Len(agg_events) }

RECURSIVE SumDurations(_)
SumDurations(ps) ==
    IF ps = <<>> THEN 0 ELSE Head(ps).duration_minutes + SumDurations(Tail(ps))

\* C3: in the returned table, two events of one group that are adjacent in
\* timestamp order lie in the same period if and only if their gap is at most
\* gap_threshold_minutes; a group of two events with gap <= threshold yields
\* exactly one period from the first timestamp to the second, and with
\* gap > threshold exactly two periods.
C3_SamePeriodIffGapWithinThreshold ==
    a_pc = "done" =>
        \A key \in InputKeys :
            LET g == SortedGroup(key)
                ps == PeriodsOf(key)
            IN  /\ \A i \in 1..(Len(g) - 1) :
                      (\E j \in 1..Len(ps) :
                          /\ ps[j].start_time <= g[i].timestamp
                          /\ g[i + 1].timestamp <= ps[j].end_time)
                      <=> (g[i + 1].timestamp - g[i].timestamp
                              <= gap_threshold_minutes)
                /\ Len(g) = 2 =>
                      IF g[2].timestamp - g[1].timestamp <= gap_threshold_minutes
                      THEN /\ Len(ps) = 1
                           /\ ps[1].start_time = g[1].timestamp
                           /\ ps[1].end_time = g[2].timestamp
                      ELSE Len(ps) = 2

\* a group with a gap equal to the threshold merged into one period, and a
\* longer gap after it that split off a second period
C3_Witness ==
    /\ a_pc = "done"
    /\ \E key \in InputKeys :
          /\ Len(PeriodsOf(key)) = 2
          /\ PeriodsOf(key)[1].count = 2
          /\ PeriodsOf(key)[1].end_time - PeriodsOf(key)[1].start_time
                = gap_threshold_minutes

\* C4: for every non-empty input the period still open at the end of a group
\* is emitted: every event lies in exactly one returned period of its group,
\* and a group has 1 + (number of adjacent gaps above the threshold) periods.
C4_OpenPeriodIsEmitted ==
    (a_pc = "done" /\ agg_events # <<>>) =>
        /\ \A i \in 1..Len(agg_events) :
              Cardinality(PeriodsCovering(GroupKey(agg_events[i]),
                                          agg_events[i].timestamp)) = 1
        /\ \A key \in InputKeys :
              Len(PeriodsOf(key)) = 1 + GapsExceeding(key)

\* two groups, one of them split by a gap, each with its last period returned
C4_Witness ==
    /\ a_pc = "done"
    /\ Cardinality(InputKeys) = 2
    /\ \E key \in InputKeys : GapsExceeding(key) = 1 /\ Len(PeriodsOf(key)) = 2
    /\ \E key \in InputKeys : GapsExceeding(key) = 0 /\ Len(PeriodsOf(key)) = 1

\* n events of one group spaced exactly res apart
GapFree(res) ==
    /\ agg_events # <<>>
    /\ Cardinality(InputKeys) = 1
    /\ \A key \in InputKeys :
          \A i \in 1..(Len(SortedGroup(key)) - 1) :
              SortedGroup(key)[i + 1].timestamp - SortedGroup(key)[i].timestamp = res

\* C5: for n events of one group spaced exactly res minutes apart, with
\* res <= gap_threshold_minutes, the durations of the returned periods sum to
\* n * res.
C5_GapFreeDurationsSumToCount ==
    a_pc = "done" =>
        \A res \in 1..gap_threshold_minutes :
            GapFree(res) => SumDurations(periods) = Len(agg_events) * res

\* C27: aggregate_glare_periods is insensitive to the order of its input:
\* every permutation of the same event list, including events interleaved
\* across observers and PV areas and events out of time order, yields the same
\* periods in the same output order.
C27_SamePeriodsForEveryInputOrder ==
    (a_pc = "done" /\ earlier_periods # <<>>) => periods = earlier_periods[1]

\* the second call got the events of two groups interleaved and latest first,
\* and returned more than one period
C27_Witness ==
    /\ a_pc = "done"
    /\ earlier_periods # <<>>
    /\ Len(periods) >= 2
    /\ Len(agg_events) = 3
    /\ GroupKey(agg_events[1]) = GroupKey(agg_events[3])
    /\ GroupKey(agg_events[1]) # GroupKey(agg_events[2])
    /\ agg_events[1].timestamp > agg_events[3].timestamp
    /\ agg_events # sort_values(agg_events)

\* the number of input events of a period's own group inside the period
OwnEventsInside(p) ==
    Cardinality({ i \in 1..Len(agg_events) :
        /\ agg_events[i].op_number = p.op_number
        /\ agg_events[i].pv_area_name = p.pv_area_name
        /\ p.start_time <= agg_events[i].timestamp
        /\ agg_events[i].timestamp <= p.end_time })

\* C26: every returned period has start_time <= end_time and
\* duration_minutes >= 0; the periods of one (observer, PV-area) group are in
\* increasing time order, do not overlap and are separated by more than the
\* gap threshold; and a period is made of events of its own group only.
C26_PeriodsOrderedDisjointPerGroup ==
    a_pc = "done" =>
        /\ \A j \in 1..Len(periods) :
              /\ periods[j].start_time <= periods[j].end_time
              /\ periods[j].duration_minutes >= 0
              /\ <<periods[j].op_number, periods[j].pv_area_name>> \in InputKeys
              /\ periods[j].count = OwnEventsInside(periods[j])
        /\ \A key \in InputKeys :
              \A j \in 1..(Len(PeriodsOf(key)) - 1) :
                  /\ PeriodsOf(key)[j].end_time < PeriodsOf(key)[j + 1].start_time
                  /\ PeriodsOf(key)[j + 1].start_time - PeriodsOf(key)[j].end_time
                        > gap_threshold_minutes

\* two periods of one group, handed over latest first, with an event of
\* another group at a time between them
C26_Witness ==
    /\ a_pc = "done"
    /\ Len(agg_events) = 3
    /\ agg_events[1].timestamp > agg_events[3].timestamp
    /\ GroupKey(agg_events[1]) = GroupKey(agg_events[3])
    /\ GroupKey(agg_events[2]) # GroupKey(agg_events[1])
    /\ agg_events[2].op_number = agg_events[1].op_number
    /\ agg_events[2].timestamp > agg_events[3].timestamp
    /\ agg_events[2].timestamp < agg_events[1].timestamp
    /\ Len(PeriodsOf(GroupKey(agg_events[1]))) = 2

-----------------------------------------------------------------------------
(* GlareAnalyzer.generate_angular_grid *)

\* while azimuths[i] - azimuths[i-1] > 180: azimuths[i] -= 360
RECURSIVE UnwrapDown(_, _)
UnwrapDown(prev, az) ==
    IF az - prev > HalfCircle THEN UnwrapDown(prev, az - FullCircle) ELSE az

\* while azimuths[i] - azimuths[i-1] < -180: azimuths[i] += 360
RECURSIVE UnwrapUp(_, _)
UnwrapUp(prev, az) ==
    IF az - prev < -HalfCircle THEN UnwrapUp(prev, az + FullCircle) ELSE az

\* the loop over i in range(1, len(azimuths)): each azimuth is adjusted
\* against its already adjusted predecessor
RECURSIVE UnwrapAzimuths(_)
UnwrapAzimuths(azimuths) ==
    IF Len(azimuths) <= 1 THEN azimuths
    ELSE LET front == UnwrapAzimuths(SubSeq(azimuths, 1, Len(azimuths) - 1))
             prev == front[Len(front)]
         IN  Append(front, UnwrapUp(prev, UnwrapDown(prev, azimuths[Len(azimuths)])))

RECURSIVE SeqMin(_)
SeqMin(xs) == IF Len(xs) = 1 THEN xs[1] ELSE Min2(xs[1], SeqMin(Tail(xs)))

RECURSIVE SeqMax(_)
SeqMax(xs) == IF Len(xs) = 1 THEN xs[1] ELSE Max2(xs[1], SeqMax(Tail(xs)))

\* the values x = lo; while x <= hi: ...; x += spacing
Lattice(lo, hi, spacing) ==
    [k \in 1..(((hi - lo) \div spacing) + 1) |-> lo + (k - 1) * spacing]

\* corners: the azimuth and the elevation angle of every corner of the PV area
\* as seen from the observer (calculate_azimuth, and atan2 of the height
\* difference over the haversine distance)
generate_angular_grid(an, corners, name, angular_spacing) ==
    LET azimuths == UnwrapAzimuths([i \in 1..Len(corners) |-> corners[i].azimuth])
        elevations == [i \in 1..Len(corners) |-> corners[i].elevation]
        min_az == SeqMin(azimuths) - an.angular_threshold
        max_az == SeqMax(azimuths) + an.angular_threshold
        min_el == SeqMin(elevations) - an.angular_threshold
        max_el == SeqMax(elevations) + an.angular_threshold
        azs == Lattice(min_az, max_az, angular_spacing)
        els == Lattice(min_el, max_el, angular_spacing)
    IN  [k \in 1..(Len(azs) * Len(els)) |->
            [azimuth      |-> azs[((k - 1) \div Len(els)) + 1] % FullCircle,
             elevation    |-> els[((k - 1) % Len(els)) + 1],
             op_number    |-> 1,
             pv_area_name |-> name]]

-----------------------------------------------------------------------------
(* Reflection geometry of a horizontal panel *)

\* r = i - 2(i.n)n with n = (0, 0, 1) for pan_tilt = 0: the reflected azimuth
\* is atan2(-sin(az)cos(el), cos(az)cos(el)) = -az, the elevation asin(-sin(el))
calculate_reflection_direction(sun_az, sun_el, pan_az, pan_tilt) ==
    CASE pan_tilt = 0 -> <<(FullCircle - sun_az) % FullCircle, -sun_el>>

\* arccos(-sun_vec . panel_normal) = 90 degrees - sun_el for pan_tilt = 0
calculate_incidence_angle(sun_az, sun_el, pan_az, pan_tilt) ==
    CASE pan_tilt = 0 -> MaxIncidence - sun_el

-----------------------------------------------------------------------------
(* detect_glare_vectorized as a function, as the workflow calls it *)

\* the events of the hits of one chunk, in the order of hit_indices
RECURSIVE EventsOfHits(_, _, _, _, _, _, _)
EventsOfHits(an, df, area, chunk, grid_points, hits, now) ==
    IF hits = <<>> THEN <<>>
    ELSE EventsOfHit(an, df, area, chunk[Head(hits)[1]],
                     grid_points[Head(hits)[2]], now)
         \o EventsOfHits(an, df, area, chunk, grid_points, Tail(hits), now)

\* for i in range(0, len(pv_reflections), chunk_size)
RECURSIVE EventsOfChunks(_, _, _, _, _, _, _)
EventsOfChunks(an, df, area, rows, grid_points, i, now) ==
    IF i >= Len(rows) THEN <<>>
    ELSE EventsOfHits(an, df, area, ChunkOf(rows, i), grid_points,
                      HitIndices(an, ChunkOf(rows, i), grid_points), now)
         \o EventsOfChunks(an, df, area, rows, grid_points, i + chunk_size, now)

\* the list the call returns; "KeyError" when the table has no 'pv_area_name'
\* column.  Every event of one call carries the clock reading now.
detect_glare_vectorized(an, df, grid, area, now) ==
    IF GridPointsOf(grid, area) = <<>> THEN <<>>
    ELSE IF "pv_area_name" \notin df.columns THEN "KeyError"
    ELSE IF PvReflections(df, area) = <<>> THEN <<>>
    ELSE EventsOfChunks(an, df, area, PvReflections(df, area),
                        GridPointsOf(grid, area), 0, now)

-----------------------------------------------------------------------------
(* GlareAnalysisWorkflow *)

\* setup_components: GlareAnalyzer(self.config).  The Config object takes the
\* place of the reflection profiles (it holds a profile for no module type),
\* and the thresholds keep the defaults of GlareAnalyzer.__init__.
WorkflowAnalyzer ==
    GlareAnalyzer(<<>>, default_grid_width, default_beam_spread,
                  default_sun_angle, default_glare_threshold)

\* generate_sun_positions: the positions of the period whose apparent
\* elevation is at least min_elevation
generate_sun_positions(track, min_elevation) ==
    SelectSeq(track, LAMBDA p : p.apparent_elevation >= min_elevation)

\* _generate_sun_positions: the records with the index as 'timestamp'
SunPositionRecords(data) ==
    LET kept == generate_sun_positions(
                    [k \in 1..Len(data.sun_track) |->
                        [timestamp |-> (k - 1) * data.simulation_params.resolution_minutes,
                         azimuth |-> data.sun_track[k].azimuth,
                         elevation |-> data.sun_track[k].elevation,
                         apparent_elevation |-> data.sun_track[k].elevation]],
                    data.simulation_params.sun_elevation_threshold)
    IN  kept

\* the columns of the reflection table of _analyze_glare_for_observation_point
WorkflowColumns == {"timestamp", "sun_azimuth", "sun_elevation",
                    "reflection_azimuth", "reflection_elevation",
                    "irradiance", "pv_area_name"}

\* reflection_data: one row per sun position
ReflectionData(positions, area) ==
    [k \in 1..Len(positions) |->
        LET refl == calculate_reflection_direction(
                        positions[k].azimuth, positions[k].elevation,
                        area.azimuth, area.tilt)
        IN  [timestamp |-> positions[k].timestamp,
             sun_azimuth |-> positions[k].azimuth,
             sun_elevation |-> positions[k].elevation,
             reflection_azimuth |-> refl[1],
             reflection_elevation |-> refl[2],
             irradiance |-> default_irradiance,
             pv_area_name |-> area.name]]

\* pd.DataFrame(reflection_data): a table with a RangeIndex; without rows it
\* has no columns
ReflectionFrame(positions, area) ==
    [rows |-> ReflectionData(positions, area),
     columns |-> IF positions = <<>> THEN {} ELSE WorkflowColumns,
     ts_indexed |-> FALSE]

\* the body of "for pv_area in pv_areas" for one observation point
AnalyzePvArea(op, area, positions, simulation_params, now) ==
    detect_glare_vectorized(
        WorkflowAnalyzer,
        ReflectionFrame(positions, area),
        generate_angular_grid(WorkflowAnalyzer, op.corners[area.name], area.name,
                              simulation_params.grid_width),
        area, now)

\* a variant of the loop that leaves the events as the detector built them
WithOpNumberOfGrid(events, n) == events

\* for event in glare_events: event.op_number = i + 1
WithOpNumber(events, n) ==
    [k \in 1..Len(events) |-> [events[k] EXCEPT !.op_number = n]]

\* _calculate_statistics for an empty event list
EmptyStatistics(data) ==
    [total_events |-> 0, total_hours |-> 0, days_with_glare |-> 0,
     max_intensity |-> 0,
     observation_points |-> Len(data.observation_points),
     pv_areas |-> Len(data.pv_areas)]

\* the directions of the corners of a PV area, all at one elevation angle
Corners(azimuths, elevation) ==
    [i \in 1..Len(azimuths) |-> [azimuth |-> azimuths[i], elevation |-> elevation]]

\* observation points.  OP_above stands above the PV areas: PV1 lies due south
\* 30 degrees below the horizontal, PV2 due west 10 degrees below.  OP_level
\* stands at the elevation of the PV areas.  OP_north sees PV1 across the
\* 0/360 seam.
ObservationPointSet ==
    { [name |-> "OP_above",
       corners |-> [PV1 |-> Corners(<<35900, 36000, 36100>>, -6000),
                    PV2 |-> Corners(<<53900, 54000, 54100>>, -2000)]],
      [name |-> "OP_level",
       corners |-> [PV1 |-> Corners(<<35900, 36000, 36100>>, 0),
                    PV2 |-> Corners(<<53900, 54000, 54100>>, 0)]],
      [name |-> "OP_north",
       corners |-> [PV1 |-> Corners(<<71900, 100, 71950>>, -6000),
                    PV2 |-> Corners(<<53900, 54000, 54100>>, 0)]] }

\* horizontal PV areas of module type 1
PvAreaPV1 == [name |-> "PV1", azimuth |-> 36000, tilt |-> 0, module_type |-> 1]

PvAreaPV2 == [name |-> "PV2", azimuth |-> 0, tilt |-> 0, module_type |-> 1]

PvAreaLists == { <<PvAreaPV1>>, <<PvAreaPV1, PvAreaPV2>> }

\* sun positions: due south at 30 degrees (solar noon), due east at 10 degrees,
\* due south at 1 degree
SunPositionSet == { [azimuth |-> 36000, elevation |-> 6000],
                    [azimuth |-> 18000, elevation |-> 2000],
                    [azimuth |-> 36000, elevation |-> 200] }

\* SimulationParameters: sun elevation thresholds of 0 and 3 degrees, intensity
\* thresholds of 0.1 cd/m2 and the default of 30000 cd/m2
SimulationParameterSet ==
    [grid_width : {default_grid_width},
     beam_spread : {default_beam_spread, 2 * default_beam_spread},
     sun_angle : {default_sun_angle},
     resolution_minutes : {10, 60},
     sun_elevation_threshold : {0, 600},
     intensity_threshold : {1000, default_glare_threshold}]

ProcessedDataSet ==
    [observation_points :
        UNION { [1..n -> ObservationPointSet] : n \in 1..MaxObservationPoints },
     pv_areas : PvAreaLists,
     simulation_params : SimulationParameterSet,
     sun_track : UNION { [1..n -> SunPositionSet] : n \in 1..MaxSunPositions }]

InitWorkflow ==
    /\ PureIdle
    /\ DetectIdle
    /\ AggIdle
    /\ ValidateIdle
    /\ MainIdle
    /\ w_data \in ProcessedDataSet
    /\ w_pc = "start"
    /\ sun_positions = <<>>
    /\ w_op = 0
    /\ w_pv = 0
    /\ op_events = <<>>
    /\ all_glare_events = <<>>
    /\ w_result = <<>>

\* Step 1: sun_positions = self._generate_sun_positions(data)
WfGenerateSunPositions ==
    /\ w_pc = "start"
    /\ sun_positions' = SunPositionRecords(w_data)
    /\ w_op' = 1
    /\ w_pv' = 1
    /\ w_pc' = "analyze"
    /\ UNCHANGED <<w_data, op_events, all_glare_events, w_result>>
    /\ UNCHANGED <<detectVars, aggVars, validateVars, mainVars, pureVars>>

\* one PV area of _analyze_glare_for_observation_point; the KeyError of the
\* detector leaves execute through its "except: raise"
WfAnalyzePvArea ==
    /\ w_pc = "analyze"
    /\ w_op <= Len(w_data.observation_points)
    /\ w_pv <= Len(w_data.pv_areas)
    /\ LET events == AnalyzePvArea(w_data.observation_points[w_op],
                                   w_data.pv_areas[w_pv], sun_positions,
                                   w_data.simulation_params, clock)
       IN  IF events = "KeyError"
           THEN /\ w_pc' = "raised"
                /\ w_result' = [status |-> "raised", exception |-> "KeyError"]
                /\ UNCHANGED <<op_events, w_pv>>
           ELSE /\ op_events' = op_events \o events
                /\ w_pv' = w_pv + 1
                /\ UNCHANGED <<w_pc, w_result>>
    /\ UNCHANGED <<w_data, sun_positions, w_op, all_glare_events>>
    /\ UNCHANGED <<detectVars, aggVars, validateVars, mainVars, pureVars>>

\* the PV areas of the observation point are done: its events get their
\* op_number and join all_glare_events (failures of the visualizations are
\* logged and swallowed)
WfFinishObservationPoint ==
    /\ w_pc = "analyze"
    /\ w_op <= Len(w_data.observation_points)
    /\ w_pv > Len(w_data.pv_areas)
    /\ all_glare_events' = all_glare_events \o WithOpNumber(op_events, w_op)
    /\ op_events' = <<>>
    /\ w_op' = w_op + 1
    /\ w_pv' = 1
    /\ UNCHANGED <<w_data, w_pc, sun_positions, w_result>>
    /\ UNCHANGED <<detectVars, aggVars, validateVars, mainVars, pureVars>>

\* Step 3: _calculate_statistics.  With events it reads event.luminance, which
\* a GlareEvent does not have: the AttributeError leaves execute.
WfCalculateStatistics ==
    /\ w_pc = "analyze"
    /\ w_op > Len(w_data.observation_points)
    /\ IF all_glare_events = <<>>
       THEN /\ w_pc' = "reports"
            /\ w_result' = [status |-> "running",
                            statistics |-> EmptyStatistics(w_data)]
       ELSE /\ w_pc' = "raised"
            /\ w_result' = [status |-> "raised", exception |-> "AttributeError"]
    /\ UNCHANGED <<w_data, sun_positions, w_op, w_pv, op_events, all_glare_events>>
    /\ UNCHANGED <<detectVars, aggVars, validateVars, mainVars, pureVars>>

\* Steps 4 and 5 (failures of the reports and effects are logged and
\* swallowed) and the return of AnalysisResults
WfReturn ==
    /\ w_pc = "reports"
    /\ w_pc' = "done"
    /\ w_result' = [status |-> "returned",
                    statistics |-> w_result.statistics,
                    glare_events |-> all_glare_events]
    /\ UNCHANGED <<w_data, sun_positions, w_op, w_pv, op_events, all_glare_events>>
    /\ UNCHANGED <<detectVars, aggVars, validateVars, mainVars, pureVars>>

NextWorkflow ==
    \/ WfGenerateSunPositions
    \/ WfAnalyzePvArea
    \/ WfFinishObservationPoint
    \/ WfCalculateStatistics
    \/ WfReturn

SpecWorkflow == InitWorkflow /\ [][NextWorkflow]_vars

-----------------------------------------------------------------------------
(* The merge of the per-unit event lists in execute, for every list the
   detector can hand back.  (In SpecWorkflow the detector's list is empty for
   every unit, so the merge is also run with the lists left open.) *)

\* the GlareEvent lists detect_glare_vectorized returns for one PV area, by
\* the fields the merge reads or writes: one event per hit row, in row order,
\* with the op_number of the grid and the name of the PV area
UnitEventLists(area, rows) ==
    { [k \in 1..n |-> [timestamp |-> k, op_number |-> 1,
                       pv_area_name |-> area.name]] : n \in 0..rows }

\* runs of one to MaxObservationPoints observers over one or two PV areas
MergeDataSet ==
    { data \in ProcessedDataSet :
        /\ \A i \in DOMAIN data.observation_points :
              data.observation_points[i].name = "OP_above"
        /\ data.simulation_params.resolution_minutes = 60
        /\ data.simulation_params.beam_spread = default_beam_spread
        /\ data.simulation_params.sun_elevation_threshold = 0
        /\ data.simulation_params.intensity_threshold = default_glare_threshold
        /\ Len(data.sun_track) = MaxSunPositions
        /\ \A i \in DOMAIN data.sun_track :
              data.sun_track[i] = [azimuth |-> HalfCircle, elevation |-> 6000] }

InitMerge ==
    /\ PureIdle
    /\ DetectIdle
    /\ AggIdle
    /\ ValidateIdle
    /\ MainIdle
    /\ w_data \in MergeDataSet
    /\ w_pc = "start"
    /\ sun_positions = <<>>
    /\ w_op = 0
    /\ w_pv = 0
    /\ op_events = <<>>
    /\ all_glare_events = <<>>
    /\ w_result = <<>>

\* events = detect_glare_vectorized(...); all_events.extend(events), for one
\* PV area of _analyze_glare_for_observation_point
MergeAnalyzePvArea ==
    /\ w_pc = "analyze"
    /\ w_op <= Len(w_data.observation_points)
    /\ w_pv <= Len(w_data.pv_areas)
    /\ \E events \in UnitEventLists(w_data.pv_areas[w_pv], Len(sun_positions)) :
          op_events' = op_events \o events
    /\ w_pv' = w_pv + 1
    /\ UNCHANGED <<w_data, w_pc, sun_positions, w_op, all_glare_events, w_result>>
    /\ UNCHANGED <<detectVars, aggVars, validateVars, mainVars, pureVars>>

NextMerge ==
    \/ WfGenerateSunPositions
    \/ MergeAnalyzePvArea
    \/ WfFinishObservationPoint
    \/ WfCalculateStatistics
    \/ WfReturn

SpecMerge == InitMerge /\ [][NextMerge]_vars

-----------------------------------------------------------------------------
(* Properties of GlareAnalysisWorkflow.execute *)

\* the luminance of the reflection of a sun position off a PV area: the
\* intensity formula on the row's irradiance, the incidence angle of the sun
\* on the panel and the coefficient of the module's profile
ModelledLuminance(area, position) ==
    LET incidence == calculate_incidence_angle(position.azimuth, position.elevation,
                                               area.azimuth, area.tilt)
    IN  calculate_glare_intensity(
            default_irradiance, incidence,
            get_coefficient(Profiles[area.module_type], incidence),
            placeholder_area, placeholder_distance)

\* the reflection of a sun position off a PV area lies within the angular
\* threshold of a grid point of the observation point
ReflectionReaches(op, area, position) ==
    LET refl == calculate_reflection_direction(position.azimuth, position.elevation,
                                               area.azimuth, area.tilt)
        grid == generate_angular_grid(WorkflowAnalyzer, op.corners[area.name],
                                      area.name, w_data.simulation_params.grid_width)
    IN  \E g \in 1..Len(grid) :
            AngularHit(refl[1], refl[2], grid[g].azimuth, grid[g].elevation,
                       WorkflowAnalyzer.angular_threshold)

\* at some timestep of the run a reflection reaches an observation point below
\* the grazing limit with a luminance at or above the run's intensity threshold
GlareExpected ==
    \E i \in 1..Len(w_data.observation_points), j \in 1..Len(w_data.pv_areas),
       k \in 1..Len(sun_positions) :
        /\ ReflectionReaches(w_data.observation_points[i], w_data.pv_areas[j],
                             sun_positions[k])
        /\ calculate_incidence_angle(sun_positions[k].azimuth,
                                     sun_positions[k].elevation,
                                     w_data.pv_areas[j].azimuth,
                                     w_data.pv_areas[j].tilt) < GrazingLimit
        /\ ModelledLuminance(w_data.pv_areas[j], sun_positions[k])
              >= w_data.simulation_params.intensity_threshold

\* C8: when execute has returned and at some timestep the reflection of a PV
\* area lay within the angular threshold of one of the observer's grid points
\* with a luminance at or above the intensity threshold, the returned
\* glare_events list holds at least one event.
C8_HitAboveThresholdYieldsEvent ==
    (w_pc = "done" /\ GlareExpected) => w_result.glare_events # <<>>

\* C20: the detector of a workflow run works with the thresholds of the run's
\* simulation parameters: its angular threshold is (beam_spread + sun_angle)/2
\* of the submitted parameters and its glare threshold is the submitted
\* intensity_threshold.
C20_DetectorUsesSubmittedThresholds ==
    w_pc \in {"analyze", "reports", "done"} =>
        /\ WorkflowAnalyzer.angular_threshold =
              (w_data.simulation_params.beam_spread
                  + w_data.simulation_params.sun_angle) \div 2
        /\ WorkflowAnalyzer.glare_threshold =
              w_data.simulation_params.intensity_threshold

-----------------------------------------------------------------------------
(* InputValidator *)

\* key in dictionary
Has(dict, key) == key \in DOMAIN dict

\* one entry of self.errors: the message with its place and the offending
\* value (index and corner are -1, value is 0, where the message has none)
Err(section, index, corner, problem, value) ==
    [section |-> section, index |-> index, corner |-> corner,
     problem |-> problem, value |-> value]

\* self.errors.append(...) under a condition
ErrIf(condition, error) == IF condition THEN <<error>> ELSE <<>>

required_keys == <<"pv_areas", "list_of_ops", "meta_data", "simulation_parameter">>

\* for key in required_keys: if key not in data: "Missing required key"
MissingKeyErrors(data) ==
    LET missing == SelectSeq(required_keys, LAMBDA key : ~Has(data, key))
    IN  [k \in 1..Len(missing) |-> Err(missing[k], -1, -1, "missing required key", 0)]

\* for field in required_fields: if field not in entry: "missing <field>"
MissingFieldErrors(section, index, entry, required_fields) ==
    LET missing == SelectSeq(required_fields, LAMBDA field : ~Has(entry, field))
    IN  [k \in 1..Len(missing) |-> Err(section, index, -1, "missing " \o missing[k], 0)]

\* the body of "for j, corner in enumerate(corners)"
CornerErrors(index, j, corner) ==
    ErrIf(~(Has(corner, "latitude") /\ Has(corner, "longitude")),
          Err("PV area", index, j, "missing coordinates", 0))
    \o (IF Has(corner, "latitude")
        THEN ErrIf(~(-90 <= corner.latitude /\ corner.latitude <= 90),
                   Err("PV area", index, j, "invalid latitude", corner.latitude))
        ELSE <<>>)
    \o (IF Has(corner, "longitude")
        THEN ErrIf(~(-180 <= corner.longitude /\ corner.longitude <= 180),
                   Err("PV area", index, j, "invalid longitude", corner.longitude))
        ELSE <<>>)

RECURSIVE CornersErrors(_, _, _)
CornersErrors(index, corners, j) ==
    IF j >= Len(corners) THEN <<>>
    ELSE CornerErrors(index, j, corners[j + 1]) \o CornersErrors(index, corners, j + 1)

_validate_pv_area(area, index) ==
    LET corners == IF Has(area, "corners") THEN area.corners ELSE <<>>
    IN  MissingFieldErrors("PV area", index, area,
                           <<"name", "corners", "azimuth", "tilt", "module_type">>)
        \o ErrIf(Len(corners) < 3,
                 Err("PV area", index, -1, "at least 3 corners required", 0))
        \o CornersErrors(index, corners, 0)
        \o (IF Has(area, "azimuth")
            THEN ErrIf(~(0 <= area.azimuth /\ area.azimuth <= 360),
                       Err("PV area", index, -1, "invalid azimuth", area.azimuth))
            ELSE <<>>)
        \o (IF Has(area, "tilt")
            THEN ErrIf(~(0 <= area.tilt /\ area.tilt <= 90),
                       Err("PV area", index, -1, "invalid tilt", area.tilt))
            ELSE <<>>)

RECURSIVE PvAreasErrors(_, _)
PvAreasErrors(pv_areas, i) ==
    IF i >= Len(pv_areas) THEN <<>>
    ELSE _validate_pv_area(pv_areas[i + 1], i) \o PvAreasErrors(pv_areas, i + 1)

\* the input lists of the model are lists; an empty list is an error
_validate_pv_areas(pv_areas) ==
    IF Len(pv_areas) = 0
    THEN <<Err("pv_areas", -1, -1, "at least one PV area is required", 0)>>
    ELSE PvAreasErrors(pv_areas, 0)

_validate_observation_point(op, index) ==
    MissingFieldErrors("Observation point", index, op,
                       <<"name", "latitude", "longitude">>)
    \o (IF Has(op, "latitude")
        THEN ErrIf(~(-90 <= op.latitude /\ op.latitude <= 90),
                   Err("Observation point", index, -1, "invalid latitude", op.latitude))
        ELSE <<>>)
    \o (IF Has(op, "longitude")
        THEN ErrIf(~(-180 <= op.longitude /\ op.longitude <= 180),
                   Err("Observation point", index, -1, "invalid longitude",
                       op.longitude))
        ELSE <<>>)
    \o (IF Has(op, "ground_elevation")
        THEN ErrIf(op.ground_elevation < -500 \/ op.ground_elevation > 9000,
                   Err("Observation point", index, -1, "invalid ground elevation",
                       op.ground_elevation))
        ELSE <<>>)
    \o (IF Has(op, "height_above_ground")
        THEN ErrIf(op.height_above_ground < 0 \/ op.height_above_ground > 100,
                   Err("Observation point", index, -1, "invalid height above ground",
                       op.height_above_ground))
        ELSE <<>>)

RECURSIVE ObservationPointsErrors(_, _)
ObservationPointsErrors(ops, i) ==
    IF i >= Len(ops) THEN <<>>
    ELSE _validate_observation_point(ops[i + 1], i)
         \o ObservationPointsErrors(ops, i + 1)

_validate_observation_points(ops) ==
    IF Len(ops) = 0
    THEN <<Err("list_of_ops", -1, -1, "at least one observation point is required", 0)>>
    ELSE ObservationPointsErrors(ops, 0)

\* if field not in metadata or not metadata[field]
MissingOrEmpty(metadata, field) ==
    IF Has(metadata, field) THEN metadata[field] = "" ELSE TRUE

_validate_metadata(metadata) ==
    LET required_fields == <<"user_id", "project_id", "project_name">>
        missing == SelectSeq(required_fields,
                             LAMBDA field : MissingOrEmpty(metadata, field))
    IN  [k \in 1..Len(missing) |->
            Err("Metadata", -1, -1, "missing or empty " \o missing[k], 0)]
        \o (IF Has(metadata, "language")
            THEN ErrIf(metadata.language \notin {"en", "de"},
                       Err("Metadata", -1, -1,
                           "unsupported language " \o metadata.language, 0))
            ELSE <<>>)
        \o (IF Has(metadata, "utc")
            THEN ErrIf(~(-12 <= metadata.utc /\ metadata.utc <= 14),
                       Err("Metadata", -1, -1, "invalid UTC offset", metadata.utc))
            ELSE <<>>)

\* grid_width is in units of 0.1, the thresholds in degrees and cd/m2
_validate_simulation_parameters(params) ==
    (IF Has(params, "grid_width")
     THEN ErrIf(~(1 <= params.grid_width /\ params.grid_width <= 100),
                Err("Simulation", -1, -1, "invalid grid_width", params.grid_width))
     ELSE <<>>)
    \o (IF Has(params, "resolution")
        THEN ErrIf(params.resolution
                      \notin {"1min", "5min", "10min", "30min", "60min"},
                   Err("Simulation", -1, -1,
                       "invalid resolution " \o params.resolution, 0))
        ELSE <<>>)
    \o (IF Has(params, "sun_elevation_threshold")
        THEN ErrIf(~(0 <= params.sun_elevation_threshold
                        /\ params.sun_elevation_threshold <= 10),
                   Err("Simulation", -1, -1, "invalid sun_elevation_threshold",
                       params.sun_elevation_threshold))
        ELSE <<>>)
    \o (IF Has(params, "intensity_threshold")
        THEN ErrIf(~(1000 <= params.intensity_threshold
                        /\ params.intensity_threshold <= 100000),
                   Err("Simulation", -1, -1, "invalid intensity_threshold",
                       params.intensity_threshold))
        ELSE <<>>)
    \o (IF Has(params, "module_type")
        THEN ErrIf(params.module_type \notin {0, 1, 2},
                   Err("Simulation", -1, -1, "invalid module_type",
                       params.module_type))
        ELSE <<>>)

\* self.errors after validate(data): the missing keys alone if there are any,
\* else the errors of the four sections
validate(data) ==
    IF MissingKeyErrors(data) # <<>> THEN MissingKeyErrors(data)
    ELSE _validate_pv_areas(data.pv_areas)
         \o _validate_observation_points(data.list_of_ops)
         \o _validate_metadata(data.meta_data)
         \o _validate_simulation_parameters(data.simulation_parameter)

\* the entries the input lists are made of
GoodCorner == [latitude |-> 48, longitude |-> 11]

PvAreaDicts ==
    { [name |-> "PV1", corners |-> <<GoodCorner, GoodCorner, GoodCorner>>,
       azimuth |-> 180, tilt |-> 30, module_type |-> 1],
      \* module type 7: accepted by the validator, rejected by PVArea
      [name |-> "PV1", corners |-> <<GoodCorner, GoodCorner, GoodCorner>>,
       azimuth |-> 180, tilt |-> 30, module_type |-> 7],
      \* no tilt
      [name |-> "PV1", corners |-> <<GoodCorner, GoodCorner, GoodCorner>>,
       azimuth |-> 180, module_type |-> 1],
      \* azimuth out of range, two corners only
      [name |-> "PV1", corners |-> <<GoodCorner, GoodCorner>>,
       azimuth |-> 400, tilt |-> 30, module_type |-> 1],
      \* a corner without longitude and with latitude out of range
      [name |-> "PV1", corners |-> <<GoodCorner, [latitude |-> 95], GoodCorner>>,
       azimuth |-> 180, tilt |-> 30, module_type |-> 1] }

ObservationPointDicts ==
    { [name |-> "OP1", latitude |-> 48, longitude |-> 11,
       ground_elevation |-> 495, height_above_ground |-> 2],
      \* below sea level: accepted by the validator, rejected by Coordinate
      [name |-> "OP1", latitude |-> 48, longitude |-> 11,
       ground_elevation |-> -100, height_above_ground |-> 2],
      \* no name, latitude and ground elevation out of range
      [latitude |-> 95, longitude |-> 11, ground_elevation |-> -600] }

MetadataDicts ==
    { [user_id |-> "u", project_id |-> "p", project_name |-> "n",
       language |-> "en", utc |-> 1],
      [user_id |-> "", project_id |-> "p", project_name |-> "n"],
      [user_id |-> "u", project_id |-> "p", project_name |-> "n",
       language |-> "fr", utc |-> 15] }

SimulationParameterDicts ==
    { [grid_width |-> 10, resolution |-> "60min", sun_elevation_threshold |-> 3,
       intensity_threshold |-> 30000, module_type |-> 1],
      [resolution |-> "10min"],
      [grid_width |-> 0, resolution |-> "2min", sun_elevation_threshold |-> 3,
       intensity_threshold |-> 30000, module_type |-> 1] }

\* a value that may be absent: <<>> or <<value>>
Optional(values) == {<<>>} \cup { <<x>> : x \in values }

\* lists of at most n entries
ListsUpTo(entries, n) == UNION { [1..k -> entries] : k \in 0..n }

\* the dictionary with the top-level keys whose value is present
MakeData(pv_areas, list_of_ops, meta_data, simulation_parameter) ==
    LET optional == [pv_areas |-> pv_areas, list_of_ops |-> list_of_ops,
                     meta_data |-> meta_data,
                     simulation_parameter |-> simulation_parameter]
        present == { key \in DOMAIN optional : optional[key] # <<>> }
    IN  [key \in present |-> optional[key][1]]

\* input dictionaries with lists of at most n entries
InputData(n) ==
    { MakeData(pv, ops, meta, sim) :
        pv \in Optional(ListsUpTo(PvAreaDicts, n)),
        ops \in Optional(ListsUpTo(ObservationPointDicts, n)),
        meta \in Optional(MetadataDicts),
        sim \in Optional(SimulationParameterDicts) }

InitValidate ==
    /\ PureIdle
    /\ DetectIdle
    /\ AggIdle
    /\ WorkflowIdle
    /\ MainIdle
    /\ v_data \in InputData(MaxItems)
    /\ v_pc = "call"
    /\ errors = <<>>
    /\ v_result = FALSE
    /\ v_calls = 0

\* a variant of validate that does not empty self.errors
KeepErrors(errors_before) == errors_before

\* self.errors = []
ResetErrors(errors_before) == <<>>

\* self.errors = []; the required keys; the early return when one is missing
ValidateCall ==
    /\ v_pc = "call"
    /\ errors' = ResetErrors(errors) \o MissingKeyErrors(v_data)
    /\ IF MissingKeyErrors(v_data) # <<>>
       THEN /\ v_result' = FALSE
            /\ v_pc' = "done"
       ELSE /\ v_pc' = "pv_areas"
            /\ UNCHANGED v_result
    /\ v_calls' = v_calls + 1
    /\ UNCHANGED v_data
    /\ UNCHANGED <<detectVars, aggVars, workflowVars, mainVars, pureVars>>

ValidatePvAreas ==
    /\ v_pc = "pv_areas"
    /\ errors' = errors \o _validate_pv_areas(v_data.pv_areas)
    /\ v_pc' = "list_of_ops"
    /\ UNCHANGED <<v_data, v_result, v_calls>>
    /\ UNCHANGED <<detectVars, aggVars, workflowVars, mainVars, pureVars>>

ValidateObservationPoints ==
    /\ v_pc = "list_of_ops"
    /\ errors' = errors \o _validate_observation_points(v_data.list_of_ops)
    /\ v_pc' = "meta_data"
    /\ UNCHANGED <<v_data, v_result, v_calls>>
    /\ UNCHANGED <<detectVars, aggVars, workflowVars, mainVars, pureVars>>

ValidateMetadata ==
    /\ v_pc = "meta_data"
    /\ errors' = errors \o _validate_metadata(v_data.meta_data)
    /\ v_pc' = "simulation_parameter"
    /\ UNCHANGED <<v_data, v_result, v_calls>>
    /\ UNCHANGED <<detectVars, aggVars, workflowVars, mainVars, pureVars>>

\* the last section and "return len(self.errors) == 0"
ValidateSimulationParameters ==
    /\ v_pc = "simulation_parameter"
    /\ errors' = errors \o _validate_simulation_parameters(v_data.simulation_parameter)
    /\ v_result' = (errors' = <<>>)
    /\ v_pc' = "done"
    /\ UNCHANGED <<v_data, v_calls>>
    /\ UNCHANGED <<detectVars, aggVars, workflowVars, mainVars, pureVars>>

NextValidate ==
    \/ ValidateCall
    \/ ValidatePvAreas
    \/ ValidateObservationPoints
    \/ ValidateMetadata
    \/ ValidateSimulationParameters

SpecValidate == InitValidate /\ [][NextValidate]_vars

\* the largest number of validate calls on one InputValidator
MaxCalls == 2

\* the inputs of a validator that is called again and again
InitRevalidate ==
    /\ PureIdle
    /\ DetectIdle
    /\ AggIdle
    /\ WorkflowIdle
    /\ MainIdle
    /\ v_data \in InputData(1)
    /\ v_pc = "call"
    /\ errors = <<>>
    /\ v_result = FALSE
    /\ v_calls = 0

\* the next validate call on the same InputValidator: self.errors still holds
\* the messages of the call before
ValidateAgain ==
    /\ v_pc = "done"
    /\ v_calls < MaxCalls
    /\ v_data' \in InputData(1)
    /\ v_pc' = "call"
    /\ UNCHANGED <<errors, v_result, v_calls>>
    /\ UNCHANGED <<detectVars, aggVars, workflowVars, mainVars, pureVars>>

NextRevalidate ==
    \/ ValidateCall
    \/ ValidatePvAreas
    \/ ValidateObservationPoints
    \/ ValidateMetadata
    \/ ValidateSimulationParameters
    \/ ValidateAgain

SpecRevalidate == InitRevalidate /\ [][NextRevalidate]_vars

-----------------------------------------------------------------------------
(* Properties of InputValidator.validate *)

SeqRange(seq) == { seq[i] : i \in 1..Len(seq) }

\* every problem of the input: the missing top-level keys, and what the
\* section validators find in the sections that are present
Problems(data) ==
    SeqRange(MissingKeyErrors(data))
    \cup (IF Has(data, "pv_areas")
          THEN SeqRange(_validate_pv_areas(data.pv_areas)) ELSE {})
    \cup (IF Has(data, "list_of_ops")
          THEN SeqRange(_validate_observation_points(data.list_of_ops)) ELSE {})
    \cup (IF Has(data, "meta_data")
          THEN SeqRange(_validate_metadata(data.meta_data)) ELSE {})
    \cup (IF Has(data, "simulation_parameter")
          THEN SeqRange(_validate_simulation_parameters(data.simulation_parameter))
          ELSE {})

\* C9: after a single call of validate, errors holds a message for every
\* problem of the input: for each missing top-level key and for each defect of
\* the sections that are present.
C9_EveryProblemReported ==
    v_pc = "done" => \A problem \in Problems(v_data) : problem \in SeqRange(errors)

\* some corner of some PV area has a latitude outside [-90, 90]
LatitudeOutOfRange(data) ==
    /\ Has(data, "pv_areas")
    /\ \E i \in 1..Len(data.pv_areas) :
          /\ Has(data.pv_areas[i], "corners")
          /\ \E j \in 1..Len(data.pv_areas[i].corners) :
                /\ Has(data.pv_areas[i].corners[j], "latitude")
                /\ \/ data.pv_areas[i].corners[j].latitude < -90
                   \/ data.pv_areas[i].corners[j].latitude > 90

\* C17: after any sequence of validate calls on one InputValidator the result
\* reflects the last input only: validate returns True exactly when errors is
\* empty, errors holds the messages of the last input and nothing of an
\* earlier call, an input without problems passes, an input without a
\* required top-level key fails with "Missing required key" for that key, and
\* an out-of-range corner latitude fails.
C17_ResultReflectsLastInputOnly ==
    v_pc = "done" =>
        /\ v_result = (errors = <<>>)
        /\ errors = validate(v_data)
        /\ Problems(v_data) = {} => v_result
        /\ \A k \in 1..Len(required_keys) :
              ~Has(v_data, required_keys[k]) =>
                 /\ ~v_result
                 /\ Err(required_keys[k], -1, -1, "missing required key", 0)
                       \in SeqRange(errors)
        /\ LatitudeOutOfRange(v_data) => ~v_result

\* a second call with an input without problems, after a call that failed
C17_Witness ==
    /\ v_pc = "done"
    /\ v_calls = 2
    /\ v_result
    /\ Problems(v_data) = {}
    /\ Has(v_data, "pv_areas")
    /\ v_data.pv_areas # <<>>

-----------------------------------------------------------------------------
(* calculate_glare *)

\* the exception classes raised inside the try block: by the setup of the
\* configuration and the logging, by validate on an input that is no
\* dictionary, by DataProcessor.process, and by the workflow
ExceptionClasses == {"OSError", "TypeError", "ValueError", "KeyError",
                     "ReflectionError"}

\* a variant of Caught whose handler takes ValueError only
CaughtValueErrorOnly(exception) == exception = "ValueError"

\* except Exception as e: every class above derives from Exception
Caught(exception) == exception \in ExceptionClasses

\* where control goes when the try block raises
AfterRaise(exception) == IF Caught(exception) THEN "except" ELSE "propagated"

\* _create_error_response
_create_error_response(error_message, detail) ==
    [status |-> "error",
     message |-> error_message,
     detail |-> detail,
     output_paths |-> {},
     statistics |-> {}]

\* the reports of _generate_reports
Reports == {"excel_report", "html_report", "pdf_report"}

\* _generate_reports: report_paths holds the reports that were written; a
\* reporter that fails returns None, and what it raises is logged and swallowed
_generate_reports(failed) == Reports \ failed

\* the success response: the keys of results.output_paths (the reports that
\* were written, and always 'visualizations') and of results.statistics
SuccessResponse(report_paths) ==
    [status |-> "success",
     message |-> "Glare analysis completed successfully",
     detail |-> <<>>,
     output_paths |-> report_paths \cup {"visualizations"},
     statistics |-> {"total_events", "total_hours", "days_with_glare",
                     "max_intensity", "observation_points", "pv_areas"}]

\* DataProcessor.process raises ValueError when a model object rejects its
\* values: Coordinate a negative ground elevation, PVArea a module type
\* outside [0, 1, 2]
ProcessRaises(data) ==
    \/ \E i \in 1..Len(data.list_of_ops) :
          /\ Has(data.list_of_ops[i], "ground_elevation")
          /\ data.list_of_ops[i].ground_elevation < 0
    \/ \E i \in 1..Len(data.pv_areas) :
          data.pv_areas[i].module_type \notin {0, 1, 2}

\* input_data: a dictionary, a JSON string that parses to a dictionary, a JSON
\* string that parses to something else (a number), or a string that does not
\* parse
MainInputs ==
    { [kind |-> k, parses |-> TRUE, is_dict |-> TRUE, data |-> d] :
        k \in {"dict", "str"}, d \in InputData(1) }
    \cup { [kind |-> "str", parses |-> p, is_dict |-> FALSE, data |-> <<>>] :
             p \in BOOLEAN }

InitMain ==
    /\ PureIdle
    /\ DetectIdle
    /\ AggIdle
    /\ WorkflowIdle
    /\ ValidateIdle
    /\ m_input \in MainInputs
    /\ m_pc = "setup"
    /\ m_raised = <<>>
    /\ m_swallowed = {}
    /\ response = <<>>

\* Config() and _setup_logging(config): they create directories and open the
\* log file, which the file system may refuse
MainSetup ==
    /\ m_pc = "setup"
    /\ \E fails \in BOOLEAN :
          IF fails
          THEN /\ m_raised' = Append(m_raised, "OSError")
               /\ m_pc' = AfterRaise("OSError")
          ELSE /\ m_pc' = "parse"
               /\ UNCHANGED m_raised
    /\ UNCHANGED <<m_input, m_swallowed, response>>
    /\ UNCHANGED <<detectVars, aggVars, workflowVars, validateVars, pureVars>>

\* if isinstance(input_data, str): json.loads, with its own handler
MainParse ==
    /\ m_pc = "parse"
    /\ IF m_input.kind = "str" /\ ~m_input.parses
       THEN /\ response' = _create_error_response("Invalid JSON input", <<>>)
            /\ m_pc' = "done"
       ELSE /\ m_pc' = "validate"
            /\ UNCHANGED response
    /\ UNCHANGED <<m_input, m_raised, m_swallowed>>
    /\ UNCHANGED <<detectVars, aggVars, workflowVars, validateVars, pureVars>>

\* validator.validate(input_data); "key not in data" raises TypeError when the
\* parsed input is a number
MainValidate ==
    /\ m_pc = "validate"
    /\ IF ~m_input.is_dict
       THEN /\ m_raised' = Append(m_raised, "TypeError")
            /\ m_pc' = AfterRaise("TypeError")
            /\ UNCHANGED response
       ELSE IF validate(m_input.data) # <<>>
       THEN /\ response' = _create_error_response("Input validation failed",
                                                  validate(m_input.data))
            /\ m_pc' = "done"
            /\ UNCHANGED m_raised
       ELSE /\ m_pc' = "process"
            /\ UNCHANGED <<m_raised, response>>
    /\ UNCHANGED <<m_input, m_swallowed>>
    /\ UNCHANGED <<detectVars, aggVars, workflowVars, validateVars, pureVars>>

\* processed_data = processor.process(input_data)
MainProcess ==
    /\ m_pc = "process"
    /\ IF ProcessRaises(m_input.data)
       THEN /\ m_raised' = Append(m_raised, "ValueError")
            /\ m_pc' = AfterRaise("ValueError")
       ELSE /\ m_pc' = "workflow"
            /\ UNCHANGED m_raised
    /\ UNCHANGED <<m_input, m_swallowed, response>>
    /\ UNCHANGED <<detectVars, aggVars, workflowVars, validateVars, pureVars>>

\* GlareAnalysisWorkflow(config) and workflow.execute(processed_data): the
\* constructor re-raises what its components raise (the reflection profiles
\* cannot be loaded), execute re-raises what its steps raise (KeyError for a
\* period without sun positions), or execute returns its results and the
\* success response is built.  The reports that fail are the environment's
\* choice.
MainWorkflow ==
    /\ m_pc = "workflow"
    /\ \/ \E exception \in {"ReflectionError", "KeyError"} :
             /\ m_raised' = Append(m_raised, exception)
             /\ m_pc' = AfterRaise(exception)
             /\ UNCHANGED response
             /\ UNCHANGED m_swallowed
       \/ \E failed \in SUBSET Reports :
             /\ m_swallowed' = failed
             /\ response' = SuccessResponse(_generate_reports(failed))
             /\ m_pc' = "done"
             /\ UNCHANGED m_raised
    /\ UNCHANGED m_input
    /\ UNCHANGED <<detectVars, aggVars, workflowVars, validateVars, pureVars>>

\* except Exception as e: return _create_error_response(error_msg, ...)
MainExcept ==
    /\ m_pc = "except"
    /\ response' = _create_error_response("Glare analysis failed",
                                          <<m_raised[Len(m_raised)]>>)
    /\ m_pc' = "done"
    /\ UNCHANGED <<m_input, m_raised, m_swallowed>>
    /\ UNCHANGED <<detectVars, aggVars, workflowVars, validateVars, pureVars>>

NextMain ==
    \/ MainSetup
    \/ MainParse
    \/ MainValidate
    \/ MainProcess
    \/ MainWorkflow
    \/ MainExcept

SpecMain == InitMain /\ [][NextMain]_vars

-----------------------------------------------------------------------------
(* Properties of calculate_glare *)

\* the run failed: the JSON did not parse, the validation failed, or an
\* exception was raised inside the try block
RunFailed ==
    \/ m_input.kind = "str" /\ ~m_input.parses
    \/ m_input.is_dict /\ validate(m_input.data) # <<>>
    \/ m_raised # <<>>

\* C10: calculate_glare never lets an exception out, and when the JSON does
\* not parse, the validation fails or an exception is raised during the setup,
\* the processing or the workflow, the response it returns has status
\* 'error', a message, and empty output_paths and statistics.
C10_NeverPropagates ==
    /\ m_pc # "propagated"
    /\ (m_pc = "done" /\ RunFailed) =>
          /\ response.status = "error"
          /\ response.message # ""
          /\ response.output_paths = {}
          /\ response.statistics = {}

\* a valid input whose workflow raised, answered by an error response
C10_Witness ==
    /\ m_pc = "done"
    /\ m_input.is_dict
    /\ validate(m_input.data) = <<>>
    /\ m_raised = <<"KeyError">>
    /\ response.status = "error"
    /\ response.detail = <<"KeyError">>

\* C11: calculate_glare answers with status 'success' only if every step of
\* the workflow completed: a run in which the generation of a report failed
\* ends with an error response, never with a success response that carries a
\* subset of the outputs.
C11_SuccessOnlyWhenEveryStepCompleted ==
    (m_pc = "done" /\ response.status = "success") =>
        /\ m_swallowed = {}
        /\ Reports \subseteq response.output_paths

\* C28: every input accepted by InputValidator.validate is converted by
\* DataProcessor.process without error: a run whose validation passed never
\* ends in a data-processing failure.
C28_ValidatedInputIsProcessed ==
    (/\ m_pc = "done"
     /\ m_input.is_dict
     /\ validate(m_input.data) = <<>>)
    => "ValueError" \notin SeqRange(m_raised)

\* the place of a PV area in data.pv_areas
PvAreaIndex(name) ==
    CHOOSE k \in 1..Len(w_data.pv_areas) : w_data.pv_areas[k].name = name

-----------------------------------------------------------------------------
(* ReflectionProfile, constructed and queried on its own *)

\* the largest number of samples handed to the constructor
MaxSamples == 3

\* incidence angles of the samples: 0, 30 and 100 degrees
SampleAngles == {0, 6000, MaxIncidence + 2000}

\* reflection coefficients of the samples, in percent
SampleCoefficients == {0, 40, 100}

\* angles get_coefficient is asked for: -10, 0, 15, 30, 60, 90 and 100 degrees
QueryAngles == {0 - 2000, 0, 3000, 6000, 12000, MaxIncidence, MaxIncidence + 2000}

SequencesUpTo(S, n) == UNION { [1..k -> S] : k \in 0..n }

InitProfile ==
    /\ DetectIdle
    /\ AggIdle
    /\ WorkflowIdle
    /\ ValidateIdle
    /\ MainIdle
    /\ GridIdle
    /\ HitIdle
    /\ SunIdle
    /\ ReflectionIdle
    /\ StatisticsIdle
    /\ p_angles \in SequencesUpTo(SampleAngles, MaxSamples)
    /\ p_coefficients \in SequencesUpTo(SampleCoefficients, MaxSamples)
    /\ p_pc = "new"
    /\ p_profile = <<>>
    /\ p_angle = 0
    /\ p_result = 0

\* ReflectionProfile.__init__ with lists of different lengths
ProfileRaise ==
    /\ p_pc = "new"
    /\ Len(p_angles) # Len(p_coefficients)
    /\ p_pc' = "raised"
    /\ UNCHANGED <<p_angles, p_coefficients, p_profile, p_angle, p_result>>
    /\ UNCHANGED <<detectVars, aggVars, workflowVars, validateVars, mainVars>>
    /\ UNCHANGED <<sunVars, reflectionVars, statisticsVars, gridVars, hitVars>>

\* ReflectionProfile.__init__ with lists of one length
ProfileConstruct ==
    /\ p_pc = "new"
    /\ Len(p_angles) = Len(p_coefficients)
    /\ \E sort_idx \in argsort(p_angles) :
          p_profile' = Reorder(p_angles, p_coefficients, sort_idx)
    /\ p_pc' = "built"
    /\ UNCHANGED <<p_angles, p_coefficients, p_angle, p_result>>
    /\ UNCHANGED <<detectVars, aggVars, workflowVars, validateVars, mainVars>>
    /\ UNCHANGED <<sunVars, reflectionVars, statisticsVars, gridVars, hitVars>>

\* p_profile.get_coefficient(angle) on a p_profile with samples (on an empty one
\* self.angles[0] raises IndexError)
ProfileGetCoefficient ==
    /\ p_pc \in {"built", "queried"}
    /\ p_profile.angles # <<>>
    /\ \E angle \in QueryAngles :
          /\ p_angle' = angle
          /\ p_result' = get_coefficient(p_profile, angle)
    /\ p_pc' = "queried"
    /\ UNCHANGED <<p_angles, p_coefficients, p_profile>>
    /\ UNCHANGED <<detectVars, aggVars, workflowVars, validateVars, mainVars>>
    /\ UNCHANGED <<sunVars, reflectionVars, statisticsVars, gridVars, hitVars>>

NextProfile ==
    \/ ProfileRaise
    \/ ProfileConstruct
    \/ ProfileGetCoefficient

SpecProfile == InitProfile /\ [][NextProfile]_vars

-----------------------------------------------------------------------------
(* generate_sun_positions of sun_calculations, called on its own.  A datetime
   is its wall-clock minute and its tzinfo; utcoffset is in minutes. *)

UtcOffset(tzinfo) == IF tzinfo = "+01:00" THEN 60 ELSE 0

\* a variant of _ensure_utc that reads a naive datetime as UTC
_ensure_utc_assuming(dt) ==
    [raised |-> FALSE,
     value  |-> [minute |-> dt.minute - UtcOffset(dt.tzinfo), tzinfo |-> "UTC"]]

\* _ensure_utc: ValueError for a naive datetime, else dt.astimezone(pytz.UTC)
_ensure_utc(dt) ==
    IF dt.tzinfo = "naive"
    THEN [raised |-> TRUE, value |-> dt]
    ELSE [raised |-> FALSE,
          value  |-> [minute |-> dt.minute - UtcOffset(dt.tzinfo), tzinfo |-> "UTC"]]

\* datetime comparison raises TypeError between a naive and an aware datetime
Comparable(a, b) == (a.tzinfo = "naive") <=> (b.tzinfo = "naive")

\* a <= b on two naive or two aware datetimes
DatetimeLessEq(a, b) ==
    a.minute - UtcOffset(a.tzinfo) <= b.minute - UtcOffset(b.tzinfo)

\* pd.date_range(start, end, freq): start, start + freq, ... up to end
date_range(start, end, freq) ==
    [k \in 1..((end.minute - start.minute) \div freq + 1) |->
        start.minute + (k - 1) * freq]

Datetimes == [minute : {0, 60, 120}, tzinfo : {"naive", "UTC", "+01:00"}]

\* min_elevation: the default of -90 degrees (no filter) and the horizon
MinElevations == {-90, 0}

SunArguments ==
    [start_time : Datetimes, end_time : Datetimes,
     time_resolution_minutes : {0, 1, 60, 61},
     min_elevation : MinElevations]

\* the sun's elevation in degrees at a UTC minute, standing for
\* loc.get_solarposition and _calculate_sun_position_simple: a morning in
\* which the sun crosses the horizon at minute 30 and climbs one degree in
\* six minutes
SunElevation(minute) == (minute - 30) \div 6

\* result[result['apparent_elevation'] >= min_elevation] when
\* min_elevation > -90; the rows keep their index
FilterByElevation(result, min_elevation) ==
    IF min_elevation > -90
    THEN SelectSeq(result, LAMBDA row : row.apparent_elevation >= min_elevation)
    ELSE result

\* _generate_sun_positions_pvlib: the table is indexed by the times
_generate_sun_positions_pvlib(start_time, end_time, time_resolution_minutes, min_elevation) ==
    LET times == date_range(start_time, end_time, time_resolution_minutes)
        result == [k \in 1..Len(times) |->
                     [index |-> [kind |-> "datetime", value |-> times[k]],
                      apparent_elevation |-> SunElevation(times[k])]]
    IN  FilterByElevation(result, min_elevation)

\* _generate_sun_positions_simple: the dicts appended for the times that pass
\* the elevation test hold no time, and pd.DataFrame(positions) numbers the
\* rows 0, 1, 2, ...
_generate_sun_positions_simple(start_time, end_time, time_resolution_minutes, min_elevation) ==
    LET times == date_range(start_time, end_time, time_resolution_minutes)
        kept == SelectSeq(times, LAMBDA time : SunElevation(time) >= min_elevation)
    IN  [k \in 1..Len(kept) |->
           [index |-> [kind |-> "position", value |-> k - 1],
            apparent_elevation |-> SunElevation(kept[k])]]

InitSun ==
    /\ DetectIdle
    /\ AggIdle
    /\ WorkflowIdle
    /\ ValidateIdle
    /\ MainIdle
    /\ GridIdle
    /\ HitIdle
    /\ ProfileIdle
    /\ ReflectionIdle
    /\ StatisticsIdle
    /\ s_args \in SunArguments
    /\ s_pvlib \in BOOLEAN
    /\ s_pc = "resolution"
    /\ s_result = <<>>

\* if not (1 <= time_resolution_minutes <= 60): raise ValueError
SunCheckResolution ==
    /\ s_pc = "resolution"
    /\ IF s_args.time_resolution_minutes >= 1 /\ s_args.time_resolution_minutes <= 60
       THEN s_pc' = "order" /\ UNCHANGED s_result
       ELSE s_pc' = "raised" /\ s_result' = [exception |-> "ValueError", positions |-> <<>>]
    /\ UNCHANGED <<s_args, s_pvlib>>
    /\ UNCHANGED <<detectVars, aggVars, workflowVars, validateVars, mainVars>>
    /\ UNCHANGED <<profileVars, reflectionVars, statisticsVars, gridVars, hitVars>>

\* if end_time <= start_time: raise ValueError
SunCheckOrder ==
    /\ s_pc = "order"
    /\ IF ~Comparable(s_args.end_time, s_args.start_time)
       THEN s_pc' = "raised" /\ s_result' = [exception |-> "TypeError", positions |-> <<>>]
       ELSE IF DatetimeLessEq(s_args.end_time, s_args.start_time)
       THEN s_pc' = "raised" /\ s_result' = [exception |-> "ValueError", positions |-> <<>>]
       ELSE s_pc' = "utc" /\ UNCHANGED s_result
    /\ UNCHANGED <<s_args, s_pvlib>>
    /\ UNCHANGED <<detectVars, aggVars, workflowVars, validateVars, mainVars>>
    /\ UNCHANGED <<profileVars, reflectionVars, statisticsVars, gridVars, hitVars>>

\* start_time = _ensure_utc(start_time); end_time = _ensure_utc(end_time)
SunEnsureUtc ==
    /\ s_pc = "utc"
    /\ LET start == _ensure_utc(s_args.start_time)
           end == _ensure_utc(s_args.end_time)
       IN  IF start.raised \/ end.raised
           THEN /\ s_pc' = "raised"
                /\ s_result' = [exception |-> "ValueError", positions |-> <<>>]
           ELSE /\ s_pc' = "generate"
                /\ s_result' = [start_time |-> start.value, end_time |-> end.value]
    /\ UNCHANGED <<s_args, s_pvlib>>
    /\ UNCHANGED <<detectVars, aggVars, workflowVars, validateVars, mainVars>>
    /\ UNCHANGED <<profileVars, reflectionVars, statisticsVars, gridVars, hitVars>>

\* return _generate_sun_positions_pvlib(...) if PVLIB_AVAILABLE, else
\* return _generate_sun_positions_simple(...)
SunGenerate ==
    /\ s_pc = "generate"
    /\ s_pc' = "returned"
    /\ s_result' = [exception |-> "none",
                    implementation |-> IF s_pvlib THEN "pvlib" ELSE "simple",
                    positions |->
                        IF s_pvlib
                        THEN _generate_sun_positions_pvlib(
                                 s_result.start_time, s_result.end_time,
                                 s_args.time_resolution_minutes,
                                 s_args.min_elevation)
                        ELSE _generate_sun_positions_simple(
                                 s_result.start_time, s_result.end_time,
                                 s_args.time_resolution_minutes,
                                 s_args.min_elevation)]
    /\ UNCHANGED <<s_args, s_pvlib>>
    /\ UNCHANGED <<detectVars, aggVars, workflowVars, validateVars, mainVars>>
    /\ UNCHANGED <<profileVars, reflectionVars, statisticsVars, gridVars, hitVars>>

NextSun ==
    \/ SunCheckResolution
    \/ SunCheckOrder
    \/ SunEnsureUtc
    \/ SunGenerate

SpecSun == InitSun /\ [][NextSun]_vars

-----------------------------------------------------------------------------
(* calculate_reflection_direction, called on its own for horizontal panels *)

\* sun azimuths every 45 degrees, sun elevations of 0, 30, 60 and 89 degrees,
\* panels facing north, east and south
ReflectionArguments ==
    [sun_az   : {0, 9000, 18000, 27000, 36000, 45000, 54000, 63000},
     sun_el   : {0, 6000, 12000, GrazingLimit},
     pan_az   : {0, 18000, 36000},
     pan_tilt : {0}]

InitReflection ==
    /\ DetectIdle
    /\ AggIdle
    /\ WorkflowIdle
    /\ ValidateIdle
    /\ MainIdle
    /\ GridIdle
    /\ HitIdle
    /\ ProfileIdle
    /\ SunIdle
    /\ StatisticsIdle
    /\ r_args \in ReflectionArguments
    /\ r_pc = "call"
    /\ r_result = <<>>

ReflectionCall ==
    /\ r_pc = "call"
    /\ r_result' = calculate_reflection_direction(r_args.sun_az, r_args.sun_el,
                                                  r_args.pan_az, r_args.pan_tilt)
    /\ r_pc' = "returned"
    /\ UNCHANGED r_args
    /\ UNCHANGED <<detectVars, aggVars, workflowVars, validateVars, mainVars>>
    /\ UNCHANGED <<profileVars, sunVars, statisticsVars, gridVars, hitVars>>

NextReflection == ReflectionCall

SpecReflection == InitReflection /\ [][NextReflection]_vars

-----------------------------------------------------------------------------
(* calculate_glare_statistics, called on its own.  A mean is kept as the sum
   and the count it is the quotient of. *)

\* the largest number of rows of the period table
MaxPeriods == 2

\* minutes of a calendar day
MinutesPerDay == 1440

\* glare_periods['start_time'].dt.date
DateOf(timestamp) == timestamp \div MinutesPerDay

\* glare_periods['date'] = glare_periods['start_time'].dt.date
WithDateColumn(table) ==
    [i \in 1..Len(table) |->
        [column \in DOMAIN table[i] \cup {"date"} |->
            IF column = "date" THEN DateOf(table[i].start_time)
            ELSE table[i][column]]]

\* the keys of glare_periods.groupby('date')
DatesOf(table) == { DateOf(table[i].start_time) : i \in 1..Len(table) }

\* the rows of one group
RowsOfDate(table, date) ==
    SelectSeq(table, LAMBDA row : DateOf(row.start_time) = date)

RECURSIVE ColumnSum(_, _)
ColumnSum(table, column) ==
    IF table = <<>> THEN 0 ELSE Head(table)[column] + ColumnSum(Tail(table), column)

SetMax(values) == CHOOSE x \in values : \A y \in values : y <= x

RECURSIVE SetSum(_, _)
SetSum(keys, f) ==
    IF keys = {} THEN 0
    ELSE LET key == CHOOSE key \in keys : TRUE
         IN  f[key] + SetSum(keys \ {key}, f)

calculate_glare_statistics(table) ==
    IF table = <<>>
    THEN [total_glare_minutes   |-> 0,
          days_with_glare       |-> 0,
          max_daily_minutes     |-> 0,
          average_daily_minutes |-> 0,
          max_intensity         |-> 0,
          average_intensity     |-> 0]
    ELSE LET daily_minutes ==
                 [date \in DatesOf(table) |->
                     ColumnSum(RowsOfDate(table, date), "duration_minutes")]
         IN  [total_glare_minutes   |-> ColumnSum(table, "duration_minutes"),
              days_with_glare       |-> Cardinality(DatesOf(table)),
              max_daily_minutes     |->
                  SetMax({ daily_minutes[date] : date \in DatesOf(table) }),
              average_daily_minutes |->
                  [sum   |-> SetSum(DatesOf(table), daily_minutes),
                   count |-> Cardinality(DatesOf(table))],
              max_intensity         |->
                  SetMax({ table[i].average_intensity : i \in 1..Len(table) }),
              average_intensity     |->
                  [sum   |-> ColumnSum(table, "average_intensity"),
                   count |-> Len(table)]]

\* rows of the period table as aggregate_glare_periods builds them: periods
\* that start at midnight, ten minutes before midnight and ten minutes after
\* the next midnight, of 0, 5 and 20 minutes
PeriodRows ==
    { [start_time |-> start, end_time |-> start + duration,
       duration_minutes |-> duration, average_intensity |-> intensity] :
        start \in {0, MinutesPerDay - 10, MinutesPerDay + 10},
        duration \in {0, 5, 20},
        intensity \in {default_glare_threshold, default_glare_threshold + 1} }

InitStatistics ==
    /\ DetectIdle
    /\ AggIdle
    /\ WorkflowIdle
    /\ ValidateIdle
    /\ MainIdle
    /\ GridIdle
    /\ HitIdle
    /\ ProfileIdle
    /\ SunIdle
    /\ ReflectionIdle
    /\ glare_periods \in UNION { [1..n -> PeriodRows] : n \in 0..MaxPeriods }
    /\ g_pc = "call"
    /\ g_statistics = <<>>

\* the call returns the dictionary and leaves the caller's table with the
\* 'date' column it added (an empty table is left as it was)
StatisticsCall ==
    /\ g_pc = "call"
    /\ g_statistics' = calculate_glare_statistics(glare_periods)
    /\ glare_periods' = WithDateColumn(glare_periods)
    /\ g_pc' = "returned"
    /\ UNCHANGED <<detectVars, aggVars, workflowVars, validateVars, mainVars>>
    /\ UNCHANGED <<profileVars, sunVars, reflectionVars, gridVars, hitVars>>

NextStatistics == StatisticsCall

SpecStatistics == InitStatistics /\ [][NextStatistics]_vars

-----------------------------------------------------------------------------
(* generate_angular_grid, loop by loop *)

\* the largest number of corners of a PV area
MaxCorners == 3

\* bearings of the corners from the observer: 359.5, 0.5, 5 and 181 degrees,
\* all at the observer's own height
CornerBearings == [azimuth : {71900, 100, 1000, HalfCircle + 200}, elevation : {0}]

\* angular spacings: 1 degree (the default) and 10 degrees (the largest grid
\* width the validator lets through)
AngularSpacings == {default_grid_width, 10 * default_grid_width}

\* the largest number of grid columns between the extreme corner bearings of
\* a call: PV areas that span a half circle are gridded at the coarse spacing
\* only
MaxGridColumns == 40

\* the corner bearings of a PV area
BearingsOf(corners) == [i \in 1..Len(corners) |-> corners[i].azimuth]

\* self.angular_threshold of the analyzer the workflow builds
GridThreshold == WorkflowAnalyzer.angular_threshold

\* azimuths.min(), azimuths.max(), min(elevations), max(elevations), with the
\* threshold taken off or added
GridBounds(azimuths, corners) ==
    LET elevations == [i \in 1..Len(corners) |-> corners[i].elevation]
    IN  [min_az |-> SeqMin(azimuths) - GridThreshold,
         max_az |-> SeqMax(azimuths) + GridThreshold,
         min_el |-> SeqMin(elevations) - GridThreshold,
         max_el |-> SeqMax(elevations) + GridThreshold]

\* a variant of the point that keeps the unwrapped azimuth
AngularGridPointUnwrapped(az, el, name) ==
    [azimuth |-> az, elevation |-> el, op_number |-> 1, pv_area_name |-> name]

\* AngularGridPoint(azimuth=az % 360, elevation=el, op_number=1,
\*                  pv_area_name=pv_area.name)
AngularGridPoint(az, el, name) ==
    [azimuth |-> az % FullCircle, elevation |-> el, op_number |-> 1,
     pv_area_name |-> name]

InitGrid ==
    /\ DetectIdle
    /\ AggIdle
    /\ WorkflowIdle
    /\ ValidateIdle
    /\ MainIdle
    /\ ProfileIdle
    /\ SunIdle
    /\ ReflectionIdle
    /\ StatisticsIdle
    /\ HitIdle
    /\ k_observer \in 1..MaxObservationPoints
    /\ k_corners \in UNION { [1..n -> CornerBearings] : n \in 3..MaxCorners }
    /\ k_name \in {"PV1"}
    /\ k_spacing \in AngularSpacings
    /\ LET unwrapped == UnwrapAzimuths(BearingsOf(k_corners))
       IN  (SeqMax(unwrapped) - SeqMin(unwrapped)) \div k_spacing
               <= MaxGridColumns
    /\ k_pc = "call"
    /\ k_azimuths = <<>>
    /\ k_i = 0
    /\ k_az = 0
    /\ k_el = 0
    /\ k_grid = <<>>

\* the loop over pv_area.coordinates: azimuths = np.array(azimuths)
GridCorners ==
    /\ k_pc = "call"
    /\ k_azimuths' = [i \in 1..Len(k_corners) |-> k_corners[i].azimuth]
    /\ k_i' = 1
    /\ k_pc' = "down"
    /\ UNCHANGED <<k_observer, k_corners, k_name, k_spacing, k_az, k_el, k_grid>>
    /\ UNCHANGED <<detectVars, aggVars, workflowVars, validateVars, mainVars>>
    /\ UNCHANGED <<profileVars, sunVars, reflectionVars, statisticsVars, hitVars>>

\* a variant of the loop condition that only reacts to jumps of a full circle
JumpsDownFullCircle(delta) == delta > FullCircle

\* azimuths[i] - azimuths[i-1] > 180
JumpsDown(delta) == delta > HalfCircle

\* while azimuths[i] - azimuths[i-1] > 180: azimuths[i] -= 360
\* (k_i is the 0-based i; the array is 1-based here)
GridUnwrapDown ==
    /\ k_pc = "down"
    /\ k_i < Len(k_azimuths)
    /\ IF JumpsDown(k_azimuths[k_i + 1] - k_azimuths[k_i])
       THEN /\ k_azimuths' = [k_azimuths EXCEPT ![k_i + 1] = @ - FullCircle]
            /\ UNCHANGED k_pc
       ELSE /\ k_pc' = "up"
            /\ UNCHANGED k_azimuths
    /\ UNCHANGED <<k_observer, k_corners, k_name, k_spacing, k_i, k_az, k_el, k_grid>>
    /\ UNCHANGED <<detectVars, aggVars, workflowVars, validateVars, mainVars>>
    /\ UNCHANGED <<profileVars, sunVars, reflectionVars, statisticsVars, hitVars>>

\* while azimuths[i] - azimuths[i-1] < -180: azimuths[i] += 360; then the
\* next i
GridUnwrapUp ==
    /\ k_pc = "up"
    /\ IF k_azimuths[k_i + 1] - k_azimuths[k_i] < -HalfCircle
       THEN /\ k_azimuths' = [k_azimuths EXCEPT ![k_i + 1] = @ + FullCircle]
            /\ UNCHANGED <<k_pc, k_i>>
       ELSE /\ k_pc' = "down"
            /\ k_i' = k_i + 1
            /\ UNCHANGED k_azimuths
    /\ UNCHANGED <<k_observer, k_corners, k_name, k_spacing, k_az, k_el, k_grid>>
    /\ UNCHANGED <<detectVars, aggVars, workflowVars, validateVars, mainVars>>
    /\ UNCHANGED <<profileVars, sunVars, reflectionVars, statisticsVars, hitVars>>

\* "Get bounds"; angular_grid = []; az = min_az
GridGetBounds ==
    /\ k_pc = "down"
    /\ k_i >= Len(k_azimuths)
    /\ k_az' = GridBounds(k_azimuths, k_corners).min_az
    /\ k_grid' = <<>>
    /\ k_pc' = "az"
    /\ UNCHANGED <<k_observer, k_corners, k_name, k_spacing, k_azimuths, k_i, k_el>>
    /\ UNCHANGED <<detectVars, aggVars, workflowVars, validateVars, mainVars>>
    /\ UNCHANGED <<profileVars, sunVars, reflectionVars, statisticsVars, hitVars>>

\* while az <= max_az: el = min_el; after the loop: return angular_grid
GridAzimuthLoop ==
    /\ k_pc = "az"
    /\ IF k_az <= GridBounds(k_azimuths, k_corners).max_az
       THEN /\ k_el' = GridBounds(k_azimuths, k_corners).min_el
            /\ k_pc' = "el"
       ELSE /\ k_pc' = "returned"
            /\ UNCHANGED k_el
    /\ UNCHANGED <<k_observer, k_corners, k_name, k_spacing, k_azimuths, k_i, k_az,
                   k_grid>>
    /\ UNCHANGED <<detectVars, aggVars, workflowVars, validateVars, mainVars>>
    /\ UNCHANGED <<profileVars, sunVars, reflectionVars, statisticsVars, hitVars>>

\* while el <= max_el: angular_grid.append(...); el += angular_spacing;
\* after the loop: az += angular_spacing
GridElevationLoop ==
    /\ k_pc = "el"
    /\ IF k_el <= GridBounds(k_azimuths, k_corners).max_el
       THEN /\ k_grid' = Append(k_grid, AngularGridPoint(k_az, k_el, k_name))
            /\ k_el' = k_el + k_spacing
            /\ UNCHANGED <<k_az, k_pc>>
       ELSE /\ k_az' = k_az + k_spacing
            /\ k_pc' = "az"
            /\ UNCHANGED <<k_el, k_grid>>
    /\ UNCHANGED <<k_observer, k_corners, k_name, k_spacing, k_azimuths, k_i>>
    /\ UNCHANGED <<detectVars, aggVars, workflowVars, validateVars, mainVars>>
    /\ UNCHANGED <<profileVars, sunVars, reflectionVars, statisticsVars, hitVars>>

NextGrid ==
    \/ GridCorners
    \/ GridUnwrapDown
    \/ GridUnwrapUp
    \/ GridGetBounds
    \/ GridAzimuthLoop
    \/ GridElevationLoop

SpecGrid == InitGrid /\ [][NextGrid]_vars

\* the call runs on: a step that can be taken is taken
FairSpecGrid == SpecGrid /\ WF_vars(NextGrid)

-----------------------------------------------------------------------------
(* check_glare_hit next to the comparison of detect_glare_vectorized *)

\* a variant of check_glare_hit without the wraparound branch
ScalarDeltaAzPlain(az1, az2) == Abs(az1 - az2)

\* delta_az = abs(...); if delta_az > math.pi: delta_az = 2 * math.pi - delta_az
ScalarDeltaAz(az1, az2) ==
    IF Abs(az1 - az2) > HalfCircle THEN FullCircle - Abs(az1 - az2)
    ELSE Abs(az1 - az2)

\* check_glare_hit: angular_distance <= math.radians(threshold), compared on
\* the squares; the first two conjuncts only keep the squares small
check_glare_hit(reflection_az, reflection_el, target_az, target_el, threshold) ==
    LET delta_az == ScalarDeltaAz(reflection_az, target_az)
        delta_el == Abs(reflection_el - target_el)
    IN  /\ delta_az <= threshold
        /\ delta_el <= threshold
        /\ delta_az * delta_az + delta_el * delta_el <= threshold * threshold

\* reflection directions and grid points on both sides of the 0/360 seam,
\* half a circle apart, and at, just inside and just outside the thresholds
\* of 0.515 and 0.765 degrees
HitArguments ==
    [reflection_az : {0, 50, 73, 103, HalfCircle, FullCircle - 50},
     reflection_el : {0, 73, 103, -50},
     target_az     : {0, 50, HalfCircle \div 2, FullCircle - 10},
     target_el     : {0, 20},
     threshold     : {GridThreshold, GridThreshold + 50}]

InitHit ==
    /\ DetectIdle
    /\ AggIdle
    /\ WorkflowIdle
    /\ ValidateIdle
    /\ MainIdle
    /\ ProfileIdle
    /\ SunIdle
    /\ ReflectionIdle
    /\ StatisticsIdle
    /\ GridIdle
    /\ h_args \in HitArguments
    /\ h_pc = "call"
    /\ h_scalar = FALSE
    /\ h_batched = FALSE

\* the two tests on one reflection direction and one grid point
HitCall ==
    /\ h_pc = "call"
    /\ h_scalar' = check_glare_hit(h_args.reflection_az, h_args.reflection_el,
                                   h_args.target_az, h_args.target_el,
                                   h_args.threshold)
    /\ h_batched' = AngularHit(h_args.reflection_az, h_args.reflection_el,
                               h_args.target_az, h_args.target_el,
                               h_args.threshold)
    /\ h_pc' = "returned"
    /\ UNCHANGED h_args
    /\ UNCHANGED <<detectVars, aggVars, workflowVars, validateVars, mainVars>>
    /\ UNCHANGED <<profileVars, sunVars, reflectionVars, statisticsVars, gridVars>>

NextHit == HitCall

SpecHit == InitHit /\ [][NextHit]_vars

-----------------------------------------------------------------------------
(* Properties of ReflectionProfile *)

\* C13: on a p_profile whose coefficients lie in [0,1], get_coefficient returns
\* a value in [0,1] for every angle in [0,90], and an angle outside [0,90]
\* gets the value of the nearer end of the range: get_coefficient(x) equals
\* get_coefficient(0) for x < 0 and get_coefficient(90) for x > 90.
C13_CoefficientInRangeAndClamped ==
    p_pc = "queried" =>
        /\ (p_angle >= 0 /\ p_angle <= MaxIncidence) =>
              (p_result >= 0 /\ p_result <= 100)
        /\ p_angle < 0 => p_result = get_coefficient(p_profile, 0)
        /\ p_angle > MaxIncidence =>
              p_result = get_coefficient(p_profile, MaxIncidence)

\* a query above 90 degrees on a p_profile with a sample beyond 90 degrees,
\* where the clamped angle falls between two samples
C13_Witness ==
    /\ p_pc = "queried"
    /\ p_angle > MaxIncidence
    /\ p_profile.angles = <<0, MaxIncidence + 2000>>
    /\ p_profile.coefficients = <<0, 100>>
    /\ p_result = 90

\* the stored samples are the input pairs in some order
PairsPermuted ==
    \E f \in [1..Len(p_angles) -> 1..Len(p_angles)] :
        /\ \A i, j \in 1..Len(p_angles) : i # j => f[i] # f[j]
        /\ \A i \in 1..Len(p_angles) :
              /\ p_profile.angles[i] = p_angles[f[i]]
              /\ p_profile.coefficients[i] = p_coefficients[f[i]]

\* C15: constructing a ReflectionProfile fails exactly when the angle and
\* coefficient lists differ in length; otherwise the stored angles are in
\* non-decreasing order and the stored (angle, coefficient) pairs are a
\* permutation of the input pairs.
C15_ConstructionChecksLengthAndSortsPairs ==
    /\ p_pc = "raised" => Len(p_angles) # Len(p_coefficients)
    /\ p_pc \in {"built", "queried"} =>
          /\ Len(p_angles) = Len(p_coefficients)
          /\ Len(p_profile.angles) = Len(p_angles)
          /\ Len(p_profile.coefficients) = Len(p_angles)
          /\ \A i \in 1..(Len(p_angles) - 1) :
                p_profile.angles[i] <= p_profile.angles[i + 1]
          /\ PairsPermuted

\* a profile built from samples given in descending angle order
C15_Witness ==
    /\ p_pc = "built"
    /\ Len(p_angles) = MaxSamples
    /\ \A i \in 1..(MaxSamples - 1) :
          /\ p_angles[i] > p_angles[i + 1]
          /\ p_coefficients[i] # p_coefficients[i + 1]

-----------------------------------------------------------------------------
(* Properties of generate_sun_positions *)

SunCallOver == s_pc \in {"returned", "raised"}

\* the end is not after the start, where the two can be compared
EndNotAfterStart ==
    /\ Comparable(s_args.end_time, s_args.start_time)
    /\ s_args.end_time.minute - UtcOffset(s_args.end_time.tzinfo)
          <= s_args.start_time.minute - UtcOffset(s_args.start_time.tzinfo)

\* C16: generate_sun_positions raises, and returns no positions, whenever
\* end_time <= start_time, time_resolution_minutes is outside [1,60], or one or
\* both timestamps are naive, with pvlib available or not.
C16_InvalidArgumentsRaise ==
    (/\ SunCallOver
     /\ \/ EndNotAfterStart
        \/ s_args.time_resolution_minutes < 1
        \/ s_args.time_resolution_minutes > 60
        \/ s_args.start_time.tzinfo = "naive"
        \/ s_args.end_time.tzinfo = "naive")
    => (s_pc = "raised" /\ s_result.positions = <<>>)

\* two naive timestamps in the right order with a resolution in range: the
\* call gets as far as _ensure_utc and raises there
C16_Witness ==
    /\ s_pc = "raised"
    /\ s_args.start_time = [minute |-> 0, tzinfo |-> "naive"]
    /\ s_args.end_time = [minute |-> 120, tzinfo |-> "naive"]
    /\ s_args.time_resolution_minutes = 60

\* the UTC minutes start, start + step, ... up to end of the call
TimeGrid ==
    LET start == _ensure_utc(s_args.start_time).value
        end == _ensure_utc(s_args.end_time).value
        times == date_range(start, end, s_args.time_resolution_minutes)
    IN  {times[k] : k \in 1..Len(times)}

\* C25: with pvlib or with the simplified fallback, every returned position
\* carries its own timestamp, the timestamps are strictly increasing on the
\* fixed step grid from start to end, and the rows that pass the elevation
\* filter keep the timestamp at which their elevation was computed.
C25_PositionsCarryTheirTimestamp ==
    s_pc = "returned" =>
        LET positions == s_result.positions
        IN  /\ \A k \in 1..Len(positions) :
                  /\ positions[k].index.kind = "datetime"
                  /\ positions[k].index.value \in TimeGrid
                  /\ positions[k].apparent_elevation
                        = SunElevation(positions[k].index.value)
            /\ \A k \in 1..(Len(positions) - 1) :
                  positions[k].index.value < positions[k + 1].index.value

-----------------------------------------------------------------------------
(* Properties of calculate_reflection_direction *)

\* C14: off a panel of tilt 0, a sun at azimuth a and elevation e is reflected
\* to azimuth (a + 180) mod 360 and elevation e, whatever the panel azimuth.
C14_HorizontalPanelMirrorsAzimuth ==
    r_pc = "returned" =>
        r_result = <<(r_args.sun_az + HalfCircle) % FullCircle, r_args.sun_el>>

-----------------------------------------------------------------------------
(* Properties of calculate_glare_statistics *)

\* the calendar days on which a period has glare: every day from the day of
\* its start to the day of its end
DaysWithGlare(table) ==
    UNION { DateOf(table[i].start_time)..DateOf(table[i].end_time) :
              i \in 1..Len(table) }

\* C18: total_glare_minutes is the sum of the durations of all periods and
\* days_with_glare is the number of distinct calendar days on which a period
\* has glare, a period that runs past midnight counting for both days; for an
\* empty table every statistic is 0.
C18_TotalsAndDaysWithGlare ==
    g_pc = "returned" =>
        /\ g_statistics.total_glare_minutes = SumDurations(glare_periods)
        /\ g_statistics.days_with_glare = Cardinality(DaysWithGlare(glare_periods))
        /\ glare_periods = <<>> =>
              \A key \in DOMAIN g_statistics : g_statistics[key] = 0

-----------------------------------------------------------------------------
(* Properties of generate_angular_grid *)

\* C21: every grid point records the number of the observer it was built for
\* and the name of the PV area it was built for.
C21_GridPointsRecordObserverAndPvArea ==
    \A i \in 1..Len(k_grid) :
        /\ k_grid[i].op_number = k_observer
        /\ k_grid[i].pv_area_name = k_name

-----------------------------------------------------------------------------
(* Properties of the hit tests *)

\* the square of the angular distance of the claim: the absolute azimuth
\* difference, replaced by 360 degrees minus itself when it exceeds 180
\* degrees, and the plain absolute elevation difference (a difference above 5
\* degrees is far beyond every threshold and stands for itself, which keeps
\* the squares inside the integers)
SquaredAngularDistance ==
    LET d == IF h_args.reflection_az >= h_args.target_az
             THEN h_args.reflection_az - h_args.target_az
             ELSE h_args.target_az - h_args.reflection_az
        dAz == IF d > HalfCircle THEN FullCircle - d ELSE d
        dEl == IF h_args.reflection_el >= h_args.target_el
               THEN h_args.reflection_el - h_args.target_el
               ELSE h_args.target_el - h_args.reflection_el
    IN  IF dAz > 1000 \/ dEl > 1000 THEN 2000000 ELSE dAz * dAz + dEl * dEl

\* C22: check_glare_hit and the batched comparison of detect_glare_vectorized
\* decide the same hit relation: both report a hit exactly when
\* sqrt(dAz^2 + dEl^2) <= threshold, with the wrap-corrected dAz.
C22_ScalarAndBatchedHitAgree ==
    h_pc = "returned" =>
        /\ h_scalar = h_batched
        /\ h_scalar = (SquaredAngularDistance <= h_args.threshold * h_args.threshold)

\* a hit across the 0/360 seam
C22_Witness ==
    /\ h_pc = "returned"
    /\ h_args.reflection_az = 50
    /\ h_args.target_az = FullCircle - 10
    /\ h_scalar
    /\ h_batched

\* the unwrapping loops of the call are over
Unwrapped == k_pc \in {"az", "el", "returned"}

\* C24: after the unwrapping step every corner azimuth differs from its
\* predecessor by at most 180 degrees in absolute value and is congruent
\* modulo 360 to the corner's bearing, and the unwrapping loops terminate.
C24_UnwrappedWithinHalfCircle ==
    /\ [](Unwrapped =>
            /\ Len(k_azimuths) = Len(k_corners)
            /\ \A i \in 1..Len(k_azimuths) :
                  (k_azimuths[i] - k_corners[i].azimuth) % FullCircle = 0
            /\ \A i \in 2..Len(k_azimuths) :
                  /\ k_azimuths[i] - k_azimuths[i - 1] <= HalfCircle
                  /\ k_azimuths[i - 1] - k_azimuths[i] <= HalfCircle)
    /\ <>Unwrapped

\* a returned call whose corners straddle the seam: the second corner was
\* taken up by a full circle and the third followed it
C24_Witness ==
    /\ k_pc = "returned"
    /\ k_corners[1].azimuth = 71900
    /\ k_azimuths[2] = k_corners[2].azimuth + FullCircle
    /\ k_azimuths[3] = k_corners[3].azimuth + FullCircle

\* the point is the normalisation of a direction inside the box
InsideExpandedBox(point, box) ==
    /\ point.elevation >= box.min_el
    /\ point.elevation <= box.max_el
    /\ \E turns \in -1..1 :
          /\ point.azimuth + turns * FullCircle >= box.min_az
          /\ point.azimuth + turns * FullCircle <= box.max_az

-----------------------------------------------------------------------------
(* Properties of the chunking of detect_glare_vectorized *)

\* the events of one pass over all the rows of the PV area, every event with
\* the clock reading now
SinglePass(now) ==
    LET rows == PvReflections(reflection_df, pv_area)
        grid_points == GridPointsOf(angular_grid, pv_area)
    IN  EventsOfHits(analyzer, reflection_df, pv_area, rows, grid_points,
                     HitIndices(analyzer, rows, grid_points), now)

\* events is the single-pass list; the timestamp of an event of a table
\* without timestamp index is the clock reading at its creation, whatever the
\* chunking, and is left out of the comparison
SameAsSinglePass(events) ==
    /\ Len(events) = Len(SinglePass(0))
    /\ \A k \in 1..Len(events) :
          events[k] = [SinglePass(0)[k] EXCEPT !.timestamp =
                          IF reflection_df.ts_indexed THEN @
                          ELSE events[k].timestamp]

\* C29: the event list returned by detect_glare_vectorized does not depend on
\* the chunking: processing the rows chunk by chunk yields exactly the events,
\* in the same order, of a single pass over all rows, with no row skipped or
\* processed twice at a chunk boundary.
C29_ChunkingDoesNotChangeEvents ==
    d_pc = "done" =>
        /\ SameAsSinglePass(first_events)
        /\ SameAsSinglePass(glare_events)

\* a table of more rows than a chunk holds whose last row, alone in the second
\* chunk, yielded an event, as did the rows on the other side of the boundary
C29_Witness ==
    /\ d_pc = "done"
    /\ reflection_df.ts_indexed
    /\ Len(PvReflections(reflection_df, pv_area)) = chunk_size + 1
    /\ \E j, k \in 1..Len(glare_events) :
          /\ glare_events[j].timestamp = chunk_size - 1
          /\ glare_events[k].timestamp = chunk_size

=============================================================================
